---- MODULE Spec2Model ----
(***************************************************************************)
(* The trade-reconciliation pipeline: the option-strategy classifier       *)
(* (src/src/options.py: identify_option_strategy and                       *)
(* categorize_options_trades), the other stages of transform (consolidator,*)
(* linker, resolver, collapser) and the statement fetch                    *)
(* (src/src/api_utils.py: get_statement). pandas tables are sequences of   *)
(* records, one record per row, in row order.                              *)
(***************************************************************************)
EXTENDS Integers, Sequences, FiniteSets, TLC

\* ------------------------------------------------------------------ bounds
\* largest leg group handed to identify_option_strategy
MaxLegs == 5
\* largest leg group whose every row order is tried
MaxOrderLegs == 4
\* largest trade table handed to categorize_options_trades
MaxRows == 2
\* largest table handed to the Realized-PnL Resolver
MaxPnlRows == 2
\* largest table handed to the Duplicate Collapser
MaxDayRows == 3
\* largest table handed to the Partial-Fill Consolidator
MaxFills == 3
\* largest reporting table handed to a dashboard, the table of ten trades aside
MaxDashRows == 2

\* strikes and expiries a leg is drawn from: four strikes realise every
\* ordering pattern of a four-leg group, two expiries realise nunique() = 1
\* and nunique() > 1
Strikes == <<95, 100, 105, 110>>
Expiries == <<20240105, 20240112>>
PutCalls == <<"C", "P">>
BuySells == <<"BUY", "SELL">>

\* descriptions and execution instants a trade row is drawn from
Descriptions == <<"AAPL 150C", "SPY 400P">>
DateTimes == <<931, 1559>>
OpenClose == <<"O", "C">>

\* instruments a trade row is drawn from: a stock (no option columns), equity
\* options and a future option
NA == "<NA>"
Instruments == <<
    [assetCategory |-> "STK", putCall |-> NA,  buySell |-> "BUY",  strike |-> 0,   expiry |-> 0],
    [assetCategory |-> "OPT", putCall |-> "C", buySell |-> "BUY",  strike |-> 100, expiry |-> 20240105],
    [assetCategory |-> "OPT", putCall |-> "C", buySell |-> "SELL", strike |-> 105, expiry |-> 20240105],
    [assetCategory |-> "OPT", putCall |-> "P", buySell |-> "SELL", strike |-> 100, expiry |-> 20240105],
    [assetCategory |-> "FOP", putCall |-> "P", buySell |-> "BUY",  strike |-> 95,  expiry |-> 20240105] >>

\* ------------------------------------------------------------ pandas model
\* what a Python function that ends without `return` hands back; inside
\* identify_option_strategy it stands for "no return statement reached yet"
None == "<None>"

\* Python's == between values: a str and a set are never equal
StrV(s) == [type |-> "str", val |-> s]
SetV(S) == [type |-> "set", val |-> S]
PyEq(a, b) == IF a.type = b.type THEN a.val = b.val ELSE FALSE

\* (group[col] == val).all()
ColAll(group, col, val) == \A i \in DOMAIN group : group[i][col] = val

\* set(group[col])
ColSet(group, col) == {group[i][col] : i \in DOMAIN group}

\* group["expiry"].nunique()
ExpiryNunique(group) == Cardinality(ColSet(group, "expiry"))

\* group.loc[group[col] == val, "strike"], in row order
RECURSIVE LocStrike(_, _, _)
LocStrike(group, col, val) ==
    IF group = <<>> THEN <<>>
    ELSE (IF Head(group)[col] = val THEN <<Head(group).strike>> ELSE <<>>)
         \o LocStrike(Tail(group), col, val)

\* sorted(xs) for a list of numbers
RECURSIVE Insert(_, _)
Insert(x, sorted) ==
    IF sorted = <<>> THEN <<x>>
    ELSE IF x <= Head(sorted) THEN <<x>> \o sorted
    ELSE <<Head(sorted)>> \o Insert(x, Tail(sorted))

RECURSIVE SortList(_)
SortList(xs) == IF xs = <<>> THEN <<>> ELSE Insert(Head(xs), SortList(Tail(xs)))

\* sorted(group["strike"].tolist())
SortedStrikes(group) == SortList([i \in DOMAIN group |-> group[i].strike])

\* the first return statement reached among consecutive statements
FirstReturn(rs) ==
    IF \A i \in DOMAIN rs : rs[i] = None THEN None
    ELSE rs[CHOOSE i \in DOMAIN rs : rs[i] # None /\ \A j \in 1..(i - 1) : rs[j] = None]

\* ------------------------------------------- identify_option_strategy: 1 leg
SingleLeg_CopyPaste(group) ==
    FirstReturn(<<
        IF ColAll(group, "buySell", "BUY") THEN "Long Call" ELSE None,
        IF ColAll(group, "putCall", "C") /\ ColAll(group, "buySell", "SELL")
            THEN "Short Call" ELSE None,
        IF ColAll(group, "putCall", "P") /\ ColAll(group, "buySell", "BUY")
            THEN "Long Put" ELSE None,
        IF ColAll(group, "putCall", "P") /\ ColAll(group, "buySell", "SELL")
            THEN "Short Put" ELSE None >>)

SingleLeg(group) ==
    FirstReturn(<<
        IF ColAll(group, "putCall", "C") /\ ColAll(group, "buySell", "BUY")
            THEN "Long Call" ELSE None,
        IF ColAll(group, "putCall", "C") /\ ColAll(group, "buySell", "SELL")
            THEN "Short Call" ELSE None,
        IF ColAll(group, "putCall", "P") /\ ColAll(group, "buySell", "BUY")
            THEN "Long Put" ELSE None,
        IF ColAll(group, "putCall", "P") /\ ColAll(group, "buySell", "SELL")
            THEN "Short Put" ELSE None >>)

\* ------------------------------------------ identify_option_strategy: 2 legs
\* group.loc[group["buySell"] == "SELL", "strike"] and its BUY counterpart
StrikeSell_FirstRow(group) == <<group[1].strike>>

StrikeSell(group) == LocStrike(group, "buySell", "SELL")
StrikeBuy(group) == LocStrike(group, "buySell", "BUY")

\* `if not strike_sell.empty and not strike_buy.empty:`
SellAndBuyPresent(group) == StrikeSell(group) # <<>> /\ StrikeBuy(group) # <<>>

\* strike_sell.iloc[0], strike_buy.iloc[0]
strike_sell(group) == Head(StrikeSell(group))
strike_buy(group) == Head(StrikeBuy(group))

\* `# Bull Call Spread and Bear Call Spread`
CallSpread_LessOrEqual(group) ==
    IF ColAll(group, "putCall", "C") /\ SellAndBuyPresent(group)
    THEN IF strike_sell(group) <= strike_buy(group)
         THEN "Bear Call Spread" ELSE "Bull Call Spread"
    ELSE None

CallSpread(group) ==
    IF ColAll(group, "putCall", "C") /\ SellAndBuyPresent(group)
    THEN IF strike_sell(group) < strike_buy(group)
         THEN "Bear Call Spread" ELSE "Bull Call Spread"
    ELSE None

\* `# Bull Put Spread and Bear Put Spread`
PutSpread(group) ==
    IF ColAll(group, "putCall", "P") /\ SellAndBuyPresent(group)
    THEN IF strike_sell(group) < strike_buy(group)
         THEN "Bear Put Spread" ELSE "Bull Put Spread"
    ELSE None

\* `if group["expiry"].nunique() == 1:` with the vertical call and put spreads
VerticalSpreads_CallsOnly(group) ==
    IF ExpiryNunique(group) = 1
    THEN CallSpread(group)
    ELSE None

VerticalSpreads(group) ==
    IF ExpiryNunique(group) = 1
    THEN FirstReturn(<< CallSpread(group), PutSpread(group) >>)
    ELSE None

\* (group["buySell"] == {"BUY"}).all(): each str of the column against a set
BuySellAllEqBuy_Str(group) ==
    \A i \in DOMAIN group : PyEq(StrV(group[i].buySell), StrV("BUY"))

BuySellAllEqBuySet(group) ==
    \A i \in DOMAIN group : PyEq(StrV(group[i].buySell), SetV({"BUY"}))

\* group.loc[group["putCall"] == "C", "strike"] and its P counterpart
StrikeCall(group) == LocStrike(group, "putCall", "C")
StrikePut(group) == LocStrike(group, "putCall", "P")

\* the `# Straddle` statement
Straddle(group) ==
    IF /\ ColSet(group, "putCall") = {"P", "C"}
       /\ BuySellAllEqBuySet(group)
       /\ StrikeCall(group) # <<>>
       /\ StrikePut(group) # <<>>
       /\ Head(StrikeCall(group)) = Head(StrikePut(group))
    THEN "Straddle" ELSE None

\* `# Calendar Call Spread`
CalendarCall(group) ==
    IF /\ ColAll(group, "putCall", "C") /\ SellAndBuyPresent(group)
       /\ strike_sell(group) = strike_buy(group)
    THEN "Calendar Call Spread" ELSE None

\* `# Calendar Put Spread`
CalendarPut(group) ==
    IF /\ ColAll(group, "putCall", "P") /\ SellAndBuyPresent(group)
       /\ strike_sell(group) = strike_buy(group)
    THEN "Calendar Put Spread" ELSE None

\* `# Diagonal Call Spread`
DiagonalCall_Below(group) ==
    IF /\ ColAll(group, "putCall", "C") /\ SellAndBuyPresent(group)
       /\ strike_sell(group) < strike_buy(group)
    THEN "Diagonal Call Spread" ELSE None

DiagonalCall(group) ==
    IF /\ ColAll(group, "putCall", "C") /\ SellAndBuyPresent(group)
       /\ strike_sell(group) > strike_buy(group)
    THEN "Diagonal Call Spread" ELSE None

\* `# Diagonal Put Spread`
DiagonalPut_Above(group) ==
    IF /\ ColAll(group, "putCall", "P") /\ SellAndBuyPresent(group)
       /\ strike_sell(group) > strike_buy(group)
    THEN "Diagonal Put Spread" ELSE None

DiagonalPut(group) ==
    IF /\ ColAll(group, "putCall", "P") /\ SellAndBuyPresent(group)
       /\ strike_sell(group) < strike_buy(group)
    THEN "Diagonal Put Spread" ELSE None

\* the else branch of the `# Strangle` statement: calendar and diagonals
CalendarDiagonal(group) ==
    FirstReturn(<< CalendarCall(group), CalendarPut(group),
                   DiagonalCall(group), DiagonalPut(group) >>)

\* the `# Strangle` statement, whose else holds the calendar/diagonal rules
StrangleElse(group) ==
    IF ColSet(group, "putCall") = {"P", "C"}
    THEN IF /\ BuySellAllEqBuySet(group)
            /\ StrikeCall(group) # <<>>
            /\ StrikePut(group) # <<>>
            /\ Head(StrikeCall(group)) > Head(StrikePut(group))
         THEN "Strangle" ELSE None
    ELSE CalendarDiagonal(group)

TwoLegs(group) ==
    FirstReturn(<< VerticalSpreads(group), Straddle(group), StrangleElse(group) >>)

\* ------------------------------------------ identify_option_strategy: 4 legs
\* set(group["putCall"]) == {"P", "C"}, set(group["buySell"]) == {"BUY", "SELL"}
MixedPutCall(group) == ColSet(group, "putCall") = {"P", "C"}
MixedBuySell(group) == ColSet(group, "buySell") = {"BUY", "SELL"}

\* `# Iron Condor`
IronCondor(group) ==
    LET strikes == SortedStrikes(group) IN
    IF MixedPutCall(group) /\ MixedBuySell(group)
       /\ strikes[1] < strikes[2] /\ strikes[2] < strikes[3] /\ strikes[3] < strikes[4]
    THEN "Iron Condor" ELSE None

\* `# Iron Butterfly`
IronButterfly_OffByOne(group) ==
    LET strikes == SortedStrikes(group) IN
    IF MixedPutCall(group) /\ MixedBuySell(group) /\ strikes[1] = strikes[2]
    THEN "Iron Butterfly" ELSE None

IronButterfly(group) ==
    LET strikes == SortedStrikes(group) IN
    IF MixedPutCall(group) /\ MixedBuySell(group) /\ strikes[2] = strikes[3]
    THEN "Iron Butterfly" ELSE None

\* `# Long Put Butterfly`
LongPutButterfly(group) ==
    LET strikes == SortedStrikes(group) IN
    IF ColAll(group, "putCall", "P") /\ MixedBuySell(group)
       /\ strikes[1] < strikes[2] /\ strikes[2] = strikes[3] /\ strikes[3] < strikes[4]
    THEN "Long Put Butterfly" ELSE None

\* `# Long Call Butterfly`
LongCallButterfly_PutLabel(group) ==
    LET strikes == SortedStrikes(group) IN
    IF ColAll(group, "putCall", "C") /\ MixedBuySell(group)
       /\ strikes[1] < strikes[2] /\ strikes[2] = strikes[3] /\ strikes[3] < strikes[4]
    THEN "Long Put Butterfly" ELSE None

LongCallButterfly(group) ==
    LET strikes == SortedStrikes(group) IN
    IF ColAll(group, "putCall", "C") /\ MixedBuySell(group)
       /\ strikes[1] < strikes[2] /\ strikes[2] = strikes[3] /\ strikes[3] < strikes[4]
    THEN "Long Call Butterfly" ELSE None

\* `# Box Spread`
BoxSpread_ThreeEqual(group) ==
    LET strikes == SortedStrikes(group) IN
    IF MixedPutCall(group) /\ MixedBuySell(group)
       /\ strikes[1] = strikes[2] /\ strikes[2] = strikes[3]
    THEN "Box Spread" ELSE None

BoxSpread(group) ==
    LET strikes == SortedStrikes(group) IN
    IF MixedPutCall(group) /\ MixedBuySell(group)
       /\ strikes[1] = strikes[2] /\ strikes[3] = strikes[4]
    THEN "Box Spread" ELSE None

FourLegs(group) ==
    IF ExpiryNunique(group) = 1
    THEN FirstReturn(<< IronCondor(group), IronButterfly(group),
                        LongPutButterfly(group), LongCallButterfly(group),
                        BoxSpread(group) >>)
    ELSE None

\* ------------------------------------------------ identify_option_strategy
\* the if / elif / elif on len(group)
LegCountDispatch(group) ==
    IF Len(group) = 1 THEN SingleLeg(group)
    ELSE IF Len(group) = 2 THEN TwoLegs(group)
    ELSE IF Len(group) = 4 THEN FourLegs(group)
    ELSE None

\* the closing `return "Other"`
FallThrough_NoDefault(r) == r

FallThrough(r) == IF r = None THEN "Other" ELSE r

identify_option_strategy(group) == FallThrough(LegCountDispatch(group))

\* ------------------------------------------------------------ leg groups
\* the k-th option leg, k in 0 .. NumLegKinds - 1: every combination of
\* putCall, buySell, strike and expiry
NumLegKinds == Len(PutCalls) * Len(BuySells) * Len(Strikes) * Len(Expiries)

LegOf(k) ==
    [putCall |-> PutCalls[(k % Len(PutCalls)) + 1],
     buySell |-> BuySells[((k \div Len(PutCalls)) % Len(BuySells)) + 1],
     strike  |-> Strikes[((k \div (Len(PutCalls) * Len(BuySells))) % Len(Strikes)) + 1],
     expiry  |-> Expiries[(k \div (Len(PutCalls) * Len(BuySells) * Len(Strikes))) + 1]]

\* the number k with LegOf(k) = leg
IndexOf(seq, v) == CHOOSE i \in DOMAIN seq : seq[i] = v

LegNumber(leg) ==
    (IndexOf(PutCalls, leg.putCall) - 1)
    + Len(PutCalls) * ((IndexOf(BuySells, leg.buySell) - 1)
    + Len(BuySells) * ((IndexOf(Strikes, leg.strike) - 1)
    + Len(Strikes) * (IndexOf(Expiries, leg.expiry) - 1)))

\* group[order[1]], group[order[2]], ...: the rows of group in another order
Reorder(group, order) == [i \in DOMAIN group |-> group[order[i]]]

Orders == [n \in 1..MaxOrderLegs |->
             {f \in [1..n -> 1..n] : \A i, j \in 1..n : i # j => f[i] # f[j]}]

\* ------------------------------------------------ categorize_options_trades
\* a missing value of a column (NaN)
NaN == "<NaN>"

\* df[mask] is SelectSeq(df, mask): the rows that satisfy mask, in row order

\* (openCloseIndicator == "O") & assetCategory.isin(["OPT", "FOP"])
IsOpeningOption_AnyFill(row) == row.assetCategory \in {"OPT", "FOP"}

IsOpeningOption(row) ==
    row.openCloseIndicator = "O" /\ row.assetCategory \in {"OPT", "FOP"}

OpeningOptions(df) == SelectSeq(df, IsOpeningOption)

\* df_options.groupby("dateTime"): the group keys, and the rows of one group
\* (in row order)
GroupKeys(df_options) == {df_options[i].dateTime : i \in DOMAIN df_options}

GroupRows(df_options, key) ==
    LET InGroup(row) == row.dateTime = key IN SelectSeq(df_options, InGroup)

\* grouped.apply(identify_option_strategy, include_groups=False)
StrategyByKey(df_options) ==
    [key \in GroupKeys(df_options) |->
        identify_option_strategy(GroupRows(df_options, key))]

\* df_options["optionStrategy"] = df_options["dateTime"].map(strategy),
\* then dateTime renamed to dateTime_options
LabelledOptions(df) ==
    LET df_options == OpeningOptions(df)
        by_key == StrategyByKey(df_options)
    IN [i \in DOMAIN df_options |->
          [description      |-> df_options[i].description,
           dateTime_options |-> df_options[i].dateTime,
           optionStrategy   |-> by_key[df_options[i].dateTime]]]

\* a row of df with the optionStrategy column added
WithStrategy(row, label) ==
    [c \in DOMAIN row \cup {"optionStrategy"} |->
        IF c = "optionStrategy" THEN label ELSE row[c]]

\* df.merge(right, left_on=[description, opendateTime],
\*          right_on=[description, dateTime_options], how="left"):
\* per left row, one output row per matching right row, or one row with a
\* missing optionStrategy when nothing matches
\* left_on=["description", "opendateTime"],
\* right_on=["description", "dateTime_options"]
MergeKeysEqual_DescriptionOnly(row, o) == o.description = row.description

MergeKeysEqual(row, o) ==
    /\ o.description = row.description
    /\ o.dateTime_options = row.opendateTime

RECURSIVE LeftMerge(_, _)
LeftMerge(left, right) ==
    IF left = <<>> THEN <<>>
    ELSE LET row == Head(left)
             Matches(o) == MergeKeysEqual(row, o)
             hits == SelectSeq(right, Matches)
         IN (IF hits = <<>> THEN << WithStrategy(row, NaN) >>
             ELSE [j \in DOMAIN hits |-> WithStrategy(row, hits[j].optionStrategy)])
            \o LeftMerge(Tail(left), right)

categorize_options_trades(df) == LeftMerge(df, LabelledOptions(df))

\* ------------------------------------------------------------ trade rows
NumRowKinds ==
    Len(Instruments) * Len(Descriptions) * Len(OpenClose) * Len(DateTimes) * Len(DateTimes)

\* the k-th trade row, k in 0 .. NumRowKinds - 1
RowOf(k) ==
    LET inst == Instruments[(k % Len(Instruments)) + 1]
        k1 == k \div Len(Instruments)
        k2 == k1 \div Len(Descriptions)
        k3 == k2 \div Len(OpenClose)
        k4 == k3 \div Len(DateTimes)
    IN [description        |-> Descriptions[(k1 % Len(Descriptions)) + 1],
        openCloseIndicator |-> OpenClose[(k2 % Len(OpenClose)) + 1],
        dateTime           |-> DateTimes[(k3 % Len(DateTimes)) + 1],
        opendateTime       |-> DateTimes[(k4 % Len(DateTimes)) + 1],
        assetCategory      |-> inst.assetCategory,
        putCall            |-> inst.putCall,
        buySell            |-> inst.buySell,
        strike             |-> inst.strike,
        expiry             |-> inst.expiry]

\* a row with one more column
WithColumn(row, name, value) ==
    [c \in DOMAIN row \cup {name} |-> IF c = name THEN value ELSE row[c]]

\* ----------------------------------------- transform: Partial-Fill Consolidator
MonetaryFields == {"ibCommission", "cost", "fifoPnlRealized", "mtmPnl"}

\* the fields partial fills are grouped by: all but the monetary ones and notes
IdentityFields(row) == (DOMAIN row \ MonetaryFields) \ {"notes"}

IdentityOf(row) == [c \in IdentityFields(row) |-> row[c]]

PartialRows(rows) ==
    LET Partial(r) == r.notes = "P"
    IN SelectSeq(rows, Partial)

OtherRows(rows) ==
    LET Other(r) == r.notes # "P"
    IN SelectSeq(rows, Other)

RECURSIVE SumField(_, _)
SumField(rows, c) ==
    IF rows = <<>> THEN 0 ELSE Head(rows)[c] + SumField(Tail(rows), c)

\* the one row a group of partial fills is summed into
FillsOf(rows, key) ==
    LET InGroup(r) == IdentityOf(r) = key
    IN SelectSeq(rows, InGroup)

SummedRow_FirstFill(rows, key) ==
    [c \in DOMAIN key \cup MonetaryFields \cup {"notes"} |->
        IF c = "notes" THEN "P"
        ELSE IF c \in MonetaryFields THEN FillsOf(rows, key)[1][c]
        ELSE key[c]]

SummedRow(rows, key) ==
    [c \in DOMAIN key \cup MonetaryFields \cup {"notes"} |->
        IF c = "notes" THEN "P"
        ELSE IF c \in MonetaryFields THEN SumField(FillsOf(rows, key), c)
        ELSE key[c]]

\* the strings of the tables in ascending order, and a string's place in it
StringOrder == <<"", "AAPL 150C", "C", "MSFT", "O", "OPT", "P", "STK">>
StrRank(str) == IndexOf(StringOrder, str)

\* the order of the group keys: by description, dateTime, openCloseIndicator
KeyBefore(a, b) ==
    \/ StrRank(a.description) < StrRank(b.description)
    \/ /\ a.description = b.description
       /\ \/ a.dateTime < b.dateTime
          \/ /\ a.dateTime = b.dateTime
             /\ StrRank(a.openCloseIndicator) < StrRank(b.openCloseIndicator)

\* the keys of a set in ascending order
RECURSIVE KeysInOrder(_)
KeysInOrder(keys) ==
    IF keys = {} THEN <<>>
    ELSE LET least == CHOOSE k \in keys : \A o \in keys \ {k} : KeyBefore(k, o)
         IN << least >> \o KeysInOrder(keys \ {least})

\* the summed rows, one per group, in key order
SummedPartials(rows) ==
    LET keys == KeysInOrder({IdentityOf(rows[i]) : i \in DOMAIN rows})
    IN [j \in DOMAIN keys |-> SummedRow(rows, keys[j])]

\* the final order: assetCategory descending, description ascending, dateTime
\* ascending; rows that tie keep their order
SortsBefore(a, b) ==
    \/ StrRank(a.assetCategory) > StrRank(b.assetCategory)
    \/ /\ a.assetCategory = b.assetCategory
       /\ \/ StrRank(a.description) < StrRank(b.description)
          \/ /\ a.description = b.description
             /\ a.dateTime < b.dateTime

RECURSIVE InsertRow_TiesFirst(_, _)
InsertRow_TiesFirst(sorted, row) ==
    IF sorted = <<>> THEN << row >>
    ELSE LET last == sorted[Len(sorted)]
         IN IF ~SortsBefore(last, row)
            THEN Append(InsertRow_TiesFirst(SubSeq(sorted, 1, Len(sorted) - 1), row), last)
            ELSE Append(sorted, row)

RECURSIVE InsertRow(_, _)
InsertRow(sorted, row) ==
    IF sorted = <<>> THEN << row >>
    ELSE LET last == sorted[Len(sorted)]
         IN IF SortsBefore(row, last)
            THEN Append(InsertRow(SubSeq(sorted, 1, Len(sorted) - 1), row), last)
            ELSE Append(sorted, row)

RECURSIVE SortRows(_)
SortRows(rows) ==
    IF rows = <<>> THEN <<>>
    ELSE InsertRow(SortRows(SubSeq(rows, 1, Len(rows) - 1)), rows[Len(rows)])

\* with no partial rows the table is returned as it is
ConsolidatePartials(rows) ==
    IF PartialRows(rows) = <<>> THEN OtherRows(rows)
    ELSE SortRows(SummedPartials(PartialRows(rows)) \o OtherRows(rows))

\* ---------------------------------------------- transform: Open/Close Linker
DescriptionGroup(rows, description) ==
    LET Same(r) == r.description = description
    IN SelectSeq(rows, Same)

OpeningRows(rows) ==
    LET Opening(r) == r.openCloseIndicator = "O"
    IN SelectSeq(rows, Opening)

\* the open instant of a description group: the dateTime of its first opening
\* row in table order, of its first row when it has none
OpenInstant(rows, description) ==
    LET grp == DescriptionGroup(rows, description)
        opening == OpeningRows(grp)
    IN IF opening # <<>> THEN opening[1].dateTime ELSE grp[1].dateTime

LinkOpenClose(rows) ==
    [i \in DOMAIN rows |->
        WithColumn(rows[i], "opendateTime", OpenInstant(rows, rows[i].description))]

\* fills the two stages are tried on: an option at two instants and a stock,
\* opening or closing, partial or not, two sets of amounts
FillSlots == << [description |-> "AAPL 150C", assetCategory |-> "OPT", dateTime |-> 931],
                [description |-> "AAPL 150C", assetCategory |-> "OPT", dateTime |-> 1559],
                [description |-> "MSFT", assetCategory |-> "STK", dateTime |-> 931] >>
FillNotes == <<"P", "">>
FillAmounts == << [ibCommission |-> -1, cost |-> 100, fifoPnlRealized |-> 0, mtmPnl |-> 5],
                  [ibCommission |-> -2, cost |-> 250, fifoPnlRealized |-> 50, mtmPnl |-> -7] >>

NumFillKinds == Len(FillSlots) * Len(OpenClose) * Len(FillNotes) * Len(FillAmounts)

FillOf(k) ==
    LET k1 == k \div Len(FillNotes)
        k2 == k1 \div Len(OpenClose)
        k3 == k2 \div Len(FillSlots)
        slot == FillSlots[(k2 % Len(FillSlots)) + 1]
        amounts == FillAmounts[(k3 % Len(FillAmounts)) + 1]
    IN [description        |-> slot.description,
        assetCategory      |-> slot.assetCategory,
        dateTime           |-> slot.dateTime,
        openCloseIndicator |-> OpenClose[(k1 % Len(OpenClose)) + 1],
        notes              |-> FillNotes[(k % Len(FillNotes)) + 1],
        ibCommission       |-> amounts.ibCommission,
        cost               |-> amounts.cost,
        fifoPnlRealized    |-> amounts.fifoPnlRealized,
        mtmPnl             |-> amounts.mtmPnl]

\* ------------------------------------------- transform: Realized-PnL Resolver
\* dates are day numbers; day 0 is a Monday, so d % 7 is 5 on a Saturday and
\* 6 on a Sunday
Weekday(d) == d % 7

\* "today": the current date, a Saturday moved back one day and a Sunday two
Today(date) ==
    IF Weekday(date) = 5 THEN date - 1
    ELSE IF Weekday(date) = 6 THEN date - 2
    ELSE date

\* the settlement window [today, today + 3 days]
SettleWindowDays == 3

InSettleWindow(date, today) ==
    today <= date /\ date <= today + SettleWindowDays

\* the PnLRealized of one row
PnLRealizedOf_AlwaysMtm(row, today) == row.mtmPnl + row.ibCommission

PnLRealizedOf(row, today) ==
    IF /\ row.tradeDate = row.expiry
       /\ row.fifoPnlRealized = 0
       /\ InSettleWindow(row.settleDateTarget, today)
    THEN row.mtmPnl + row.ibCommission
    ELSE row.fifoPnlRealized

\* the table with its PnLRealized column
WithPnLRealized(rows, today) ==
    [i \in DOMAIN rows |-> WithColumn(rows[i], "PnLRealized", PnLRealizedOf(rows[i], today))]

\* the rows kept: closing rows, and rows about to settle with a non-zero
\* PnLRealized
KeepRealized(rows, today) ==
    LET Keep(row) ==
            \/ row.openCloseIndicator = "C"
            \/ (InSettleWindow(row.settleDateTarget, today) /\ row.PnLRealized # 0)
    IN SelectSeq(rows, Keep)

ResolvePnL(rows, date) == KeepRealized(WithPnLRealized(rows, Today(date)), Today(date))

\* rows the resolver is tried on: the expiry is the trade date or a week
\* later, the settlement target runs from the day before the first run date
\* to past the window of the last one
PnlTradeDate == 10
PnlExpiries == <<10, 17>>
PnlFifo == <<0, 50>>
PnlSettle == <<9, 10, 11, 13, 14, 15>>
RunDates == <<10, 11, 12, 13>>

NumPnlRowKinds == Len(OpenClose) * Len(PnlExpiries) * Len(PnlFifo) * Len(PnlSettle)

PnlRowOf(k) ==
    LET k1 == k \div Len(OpenClose)
        k2 == k1 \div Len(PnlExpiries)
        k3 == k2 \div Len(PnlFifo)
    IN [openCloseIndicator |-> OpenClose[(k % Len(OpenClose)) + 1],
        tradeDate          |-> PnlTradeDate,
        expiry             |-> PnlExpiries[(k1 % Len(PnlExpiries)) + 1],
        fifoPnlRealized    |-> PnlFifo[(k2 % Len(PnlFifo)) + 1],
        settleDateTarget   |-> PnlSettle[(k3 % Len(PnlSettle)) + 1],
        mtmPnl             |-> 100,
        ibCommission       |-> -1]

\* --------------------------------------------- transform: Duplicate Collapser
\* the rows of the (description, tradeDate) group of `row`
SameDayGroup(rows, row) ==
    LET Same(r) == r.description = row.description /\ r.tradeDate = row.tradeDate
    IN SelectSeq(rows, Same)

ClosingRows(rows) ==
    LET Closing(r) == r.openCloseIndicator = "C"
    IN SelectSeq(rows, Closing)

\* the latest dateTime of a non-empty table
RECURSIVE MaxDateTime(_)
MaxDateTime(rows) ==
    IF Len(rows) = 1 THEN rows[1].dateTime
    ELSE LET rest == MaxDateTime(Tail(rows))
         IN IF rows[1].dateTime > rest THEN rows[1].dateTime ELSE rest

\* an opening row is a re-entry when it is strictly after the latest close
OpenedAfter_OrAt(row, latest) == row.dateTime >= latest

OpenedAfter(row, latest) == row.dateTime > latest

\* whether the collapser keeps `row` of the table `rows`
KeepCollapsed_ClosingOnly(rows, row) ==
    LET closing == ClosingRows(SameDayGroup(rows, row))
    IN \/ closing = <<>>
       \/ row.openCloseIndicator = "C"

KeepCollapsed(rows, row) ==
    LET closing == ClosingRows(SameDayGroup(rows, row))
    IN \/ closing = <<>>
       \/ row.openCloseIndicator = "C"
       \/ OpenedAfter(row, MaxDateTime(closing))

CollapseDuplicates(rows) ==
    LET Keep(row) == KeepCollapsed(rows, row)
    IN SelectSeq(rows, Keep)

\* rows the collapser is tried on: three (description, tradeDate) groups, two
\* instants a day, a PnLRealized that is zero or not
DayKeys == << <<"AAPL 150C", 5>>, <<"AAPL 150C", 6>>, <<"SPY 400P", 5>> >>
DayTimes == <<931, 1559>>
DayPnl == <<0, 50>>

NumDayRowKinds == Len(DayKeys) * Len(DayTimes) * Len(OpenClose) * Len(DayPnl)

DayRowOf(k) ==
    LET k1 == k \div Len(OpenClose)
        k2 == k1 \div Len(DayTimes)
        k3 == k2 \div Len(DayPnl)
        key == DayKeys[(k3 % Len(DayKeys)) + 1]
    IN [description        |-> key[1],
        tradeDate          |-> key[2],
        dateTime           |-> key[2] * 10000 + DayTimes[(k1 % Len(DayTimes)) + 1],
        openCloseIndicator |-> OpenClose[(k % Len(OpenClose)) + 1],
        PnLRealized        |-> DayPnl[(k2 % Len(DayPnl)) + 1]]

\* ------------------------------------------------------------ get_statement
max_retries == 5
retry_delay == 5

\* what requests.get can bring back: a FlexStatementResponse document with or
\* without an ErrorCode and an ErrorMessage element, text that is not XML, or
\* no response at all (requests raises)
ErrorCodes == <<None, "", "1019", "1012", "1018">>
ErrorMessages == <<None, "Statement generation in progress", "Token has expired">>

Documents ==
    {[kind |-> "xml", ErrorCode |-> ErrorCodes[i], ErrorMessage |-> ErrorMessages[j]] :
        i \in DOMAIN ErrorCodes, j \in DOMAIN ErrorMessages}

NotXml == [kind |-> "malformed", ErrorCode |-> None, ErrorMessage |-> None]
NoResponse == [kind |-> "none", ErrorCode |-> None, ErrorMessage |-> None]

Responses == Documents \cup {NotXml, NoResponse}

ReferenceCodes == <<"1234567890", "9876543210">>

\* ET.fromstring raises ParseError on text that is not XML
ParseError(xml) == xml.kind = "malformed"

\* root.findtext(tag, default): the default when the element is absent
findtext(root, tag, default) == IF root[tag] = None THEN default ELSE root[tag]

\* error_code == "1019"
GenerationPending_AnyCode(error_code) == error_code # None /\ error_code # ""

GenerationPending(error_code) == error_code = "1019"

\* attempt < max_retries - 1
MayRetry_OffByOne(att) == att < max_retries

MayRetry(att) == att < max_retries - 1

\* elif error_code: None and "" are false
Truthy(error_code) == error_code # None /\ error_code # ""

\* Exception(f"FlexQuery Error {error_code}: {error_msg}")
FlexQueryError(error_code, error_msg) ==
    [type |-> "Exception", prefix |-> "FlexQuery Error", code |-> error_code, message |-> error_msg]

ConnectionError ==
    [type |-> "ConnectionError", prefix |-> None, code |-> None, message |-> None]

NoError == [type |-> None, prefix |-> None, code |-> None, message |-> None]

\* -------------------------------------------------------------- load_config
\* what os.getenv can give for a variable: None when it is not set
EnvTexts == <<None, "", "abc123">>
HeaderTexts == <<None, "", "User-Agent=x", "{}">>

Envs ==
    {[TOKEN |-> EnvTexts[a], QUERY_ID |-> EnvTexts[b], FLEX_VERSION |-> EnvTexts[c],
      HEADERS |-> HeaderTexts[d]] :
        a \in DOMAIN EnvTexts, b \in DOMAIN EnvTexts, c \in DOMAIN EnvTexts,
        d \in DOMAIN HeaderTexts}

\* not x, for a string or None
Falsy(x) == x = None \/ x = ""

\* json.loads: the texts that are JSON, and the dictionary they stand for
JSONDecodeError(text) == text # "{}"
json_loads(text) == [dict |-> text]

ValueError(message) ==
    [type |-> "ValueError", prefix |-> None, code |-> None, message |-> message]

\* the message of the ValueError load_config raises, None when it returns
ConfigProblem_HeadersUnchecked(e) ==
    IF Falsy(e.TOKEN) THEN "Please set the TOKEN environment variable."
    ELSE IF Falsy(e.QUERY_ID) THEN "Please set the QUERY_ID environment variable."
    ELSE IF Falsy(e.FLEX_VERSION) THEN "Please set the FLEX_VERSION environment variable."
    ELSE IF JSONDecodeError(e.HEADERS) THEN "HEADERS must be a valid JSON string."
    ELSE None

ConfigProblem(e) ==
    IF Falsy(e.TOKEN) THEN "Please set the TOKEN environment variable."
    ELSE IF Falsy(e.QUERY_ID) THEN "Please set the QUERY_ID environment variable."
    ELSE IF Falsy(e.FLEX_VERSION) THEN "Please set the FLEX_VERSION environment variable."
    ELSE IF Falsy(e.HEADERS) THEN "Please set the HEADERS environment variable."
    ELSE IF JSONDecodeError(e.HEADERS) THEN "HEADERS must be a valid JSON string."
    ELSE None

load_config(e) ==
    [TOKEN |-> e.TOKEN, QUERY_ID |-> e.QUERY_ID, FLEX_VERSION |-> e.FLEX_VERSION,
     HEADERS |-> json_loads(e.HEADERS)]

\* ------------------------------------------------------------- send_request
\* what the SendRequest call can bring back: a document with a ReferenceCode,
\* a document without one (the service's error response, sent with status 200
\* or with an error status), text that is not XML, or nothing
SendResponses ==
    {[kind |-> "xml", status |-> 200, ReferenceCode |-> ReferenceCodes[i]] :
        i \in DOMAIN ReferenceCodes}
    \cup {[kind |-> "xml", status |-> 200, ReferenceCode |-> None],
          [kind |-> "xml", status |-> 500, ReferenceCode |-> None],
          [kind |-> "malformed", status |-> 502, ReferenceCode |-> None],
          [kind |-> "none", status |-> 0, ReferenceCode |-> None]}

\* response.raise_for_status() raises for a 4xx or 5xx status
HTTPError(response) == response.status >= 400

\* the exception send_request ends with, NoError when it returns
SendRequestError(response) ==
    IF response.kind = "none" THEN ConnectionError
    ELSE IF ParseError(response)
         THEN [type |-> "ParseError", prefix |-> None, code |-> None, message |-> None]
    ELSE IF HTTPError(response)
         THEN [type |-> "HTTPError", prefix |-> None, code |-> None, message |-> None]
    ELSE NoError

\* seconds load_and_process_data waits between the two calls
generation_wait == 5

\* --------------------------------------------------- process_statement_data
\* a wire value is [wire |-> digits], a missing one [missing |-> TRUE]; the
\* 14 digits of a dateTime are held as <<YYYYMMDD, HHMMSS>>
DateColumns == {"tradeDate", "settleDateTarget", "expiry"}
ParsedColumns == DateColumns \cup {"dateTime"}

IsLeap(year) == (year % 4 = 0 /\ year % 100 # 0) \/ year % 400 = 0

DaysIn(year, month) ==
    IF month = 2 THEN (IF IsLeap(year) THEN 29 ELSE 28)
    ELSE IF month \in {4, 6, 9, 11} THEN 30 ELSE 31

\* the date %Y%m%d reads from eight digits
DateOf(digits) ==
    [year |-> digits \div 10000, month |-> (digits \div 100) % 100, day |-> digits % 100]

IsDate(date) ==
    /\ date.month \in 1..12
    /\ date.day \in 1..DaysIn(date.year, date.month)

\* the time %H%M%S reads from six digits
TimeOf(digits) ==
    [hour |-> digits \div 10000, minute |-> (digits \div 100) % 100, second |-> digits % 100]

IsTime(time) == time.hour \in 0..23 /\ time.minute \in 0..59 /\ time.second \in 0..59

\* pd.to_datetime of one value: NaT for a missing one
to_datetime(column, value) ==
    IF "missing" \in DOMAIN value THEN [NaT |-> TRUE]
    ELSE IF column = "dateTime"
         THEN LET date == DateOf(value.wire[1])
                  time == TimeOf(value.wire[2])
              IN [year |-> date.year, month |-> date.month, day |-> date.day,
                  hour |-> time.hour, minute |-> time.minute, second |-> time.second]
         ELSE DateOf(value.wire)

\* whether the value matches the column's format
MatchesFormat(column, value) ==
    \/ "missing" \in DOMAIN value
    \/ IF column = "dateTime"
       THEN IsDate(DateOf(value.wire[1])) /\ IsTime(TimeOf(value.wire[2]))
       ELSE IsDate(DateOf(value.wire))

\* the exception process_statement_data ends with, NoError when it returns
ProcessError(rows) ==
    IF \E i \in DOMAIN rows : ~(ParsedColumns \subseteq DOMAIN rows[i])
    THEN [type |-> "KeyError", prefix |-> None, code |-> None, message |-> None]
    ELSE IF \E i \in DOMAIN rows : \E c \in ParsedColumns : ~MatchesFormat(c, rows[i][c])
    THEN ValueError("time data doesn't match format")
    ELSE NoError

process_statement_data_DatesOnly(rows) ==
    [i \in DOMAIN rows |->
        [c \in DOMAIN rows[i] |->
            IF c \in DateColumns THEN to_datetime(c, rows[i][c]) ELSE rows[i][c]]]

process_statement_data(rows) ==
    [i \in DOMAIN rows |->
        [c \in DOMAIN rows[i] |->
            IF c \in ParsedColumns THEN to_datetime(c, rows[i][c]) ELSE rows[i][c]]]

\* the Trade rows a statement can hold: an option trade, a stock trade (no
\* expiry), a trade with a tradeDate that is no date, a trade without the
\* settleDateTarget attribute
RawTrades ==
    << [symbol |-> "AAPL", tradeDate |-> [wire |-> 20240105],
        settleDateTarget |-> [wire |-> 20240108], expiry |-> [wire |-> 20240119],
        dateTime |-> [wire |-> <<20240105, 93100>>]],
       [symbol |-> "MSFT", tradeDate |-> [wire |-> 20240229],
        settleDateTarget |-> [wire |-> 20240304], expiry |-> [missing |-> TRUE],
        dateTime |-> [wire |-> <<20240229, 155959>>]],
       [symbol |-> "SPY", tradeDate |-> [wire |-> 20241305],
        settleDateTarget |-> [wire |-> 20240108], expiry |-> [missing |-> TRUE],
        dateTime |-> [wire |-> <<20240105, 93100>>]],
       [symbol |-> "QQQ", tradeDate |-> [wire |-> 20240105],
        expiry |-> [missing |-> TRUE],
        dateTime |-> [wire |-> <<20240105, 93100>>]] >>

RawTables ==
    {<< RawTrades[i] >> : i \in DOMAIN RawTrades}
    \cup {<< RawTrades[1], RawTrades[2] >>}

\* ------------------------------------------------------- period columns
\* the days of the year before the first of a month
RECURSIVE DaysBefore(_, _)
DaysBefore(year, month) ==
    IF month = 1 THEN 0
    ELSE DaysBefore(year, month - 1) + DaysIn(year, month - 1)

\* day of the year, 1 for 1 January
DayOfYear(date) == DaysBefore(date.year, date.month) + date.day

\* the weekday of 1 January, 0 for Sunday
Jan1Weekday(year) ==
    (1 + 5 * ((year - 1) % 4) + 4 * ((year - 1) % 100) + 6 * ((year - 1) % 400)) % 7

\* the weekday of a date, 0 for Sunday
SundayWeekday(date) == (Jan1Weekday(date.year) + DayOfYear(date) - 1) % 7

\* the ISO weekday, 1 for Monday .. 7 for Sunday
IsoWeekday(date) == IF SundayWeekday(date) = 0 THEN 7 ELSE SundayWeekday(date)

\* the number of ISO weeks of a year
WeeksIn(year) ==
    IF Jan1Weekday(year) = 4 \/ (IsLeap(year) /\ Jan1Weekday(year) = 3)
    THEN 53 ELSE 52

\* tradeDate.dt.isocalendar().week
isocalendar_week(date) ==
    LET w == (DayOfYear(date) - IsoWeekday(date) + 10) \div 7
    IN IF w < 1 THEN WeeksIn(date.year - 1)
       ELSE IF w > WeeksIn(date.year) THEN 1
       ELSE w

MonthNames ==
    <<"January", "February", "March", "April", "May", "June", "July",
      "August", "September", "October", "November", "December">>

\* tradeDate.dt.month_name()
month_name(date) == MonthNames[date.month]

\* tradeDate.dt.quarter
quarter(date) == ((date.month - 1) \div 3) + 1

\* df["week"], df["month"], df["quarter"], df["year"] of one row
PeriodColumns(row) ==
    [c \in DOMAIN row \cup {"week", "month", "quarter", "year"} |->
        IF c = "week" THEN isocalendar_week(row.tradeDate)
        ELSE IF c = "month" THEN month_name(row.tradeDate)
        ELSE IF c = "quarter" THEN quarter(row.tradeDate)
        ELSE IF c = "year" THEN row.tradeDate.year
        ELSE row[c]]

add_period_columns(df) == [i \in DOMAIN df |-> PeriodColumns(df[i])]

\* ------------------------------------------------------ get_filtered_data
\* the argument `value`: None (the default), a number or a text
NoValue == [none |-> TRUE]
Number(n) == [int |-> n]
Text(s) == [str |-> s]

\* one element of df[period] == value: a text column equals only a text, a
\* number column only a number, and nothing equals None
CellEquals(period, cell, value) ==
    IF period = "month"
    THEN "str" \in DOMAIN value /\ value.str = cell
    ELSE "int" \in DOMAIN value /\ value.int = cell

get_filtered_data(df, period, value) ==
    IF period \in {"week", "month", "quarter", "year"}
    THEN SelectSeq(df, LAMBDA row : CellEquals(period, row[period], value))
    ELSE df

\* ---------------------------------------------------------- dashboards
\* numbers: a float is held as an exact fraction num/den, den > 0; den = 0
\* stands for what a division by zero gives (inf, or nan for 0/0)
RECURSIVE GCD(_, _)
GCD(a, b) == IF b = 0 THEN a ELSE GCD(b, a % b)

Abs(n) == IF n < 0 THEN -n ELSE n
Sign(n) == IF n < 0 THEN -1 ELSE IF n > 0 THEN 1 ELSE 0

Frac(n, d) ==
    LET g == GCD(Abs(n), d)
    IN [num |-> n \div g, den |-> d \div g]

\* the literal 0 of the else branches
Zero == [num |-> 0, den |-> 1]

\* a / b
Divide(a, b) ==
    IF b.num = 0 THEN [num |-> Sign(a.num), den |-> 0]
    ELSE Frac(Sign(b.num) * a.num * b.den, a.den * Abs(b.num))

Times100(a) == IF a.den = 0 THEN a ELSE Frac(a.num * 100, a.den)

\* n / d rounded to the nearest integer, halves to the even one (d > 0)
RoundHalfEven(n, d) ==
    LET q == n \div d
        r == n % d
    IN IF 2 * r < d THEN q
       ELSE IF 2 * r > d THEN q + 1
       ELSE IF q % 2 = 0 THEN q ELSE q + 1

\* x.round(2)
Round2(x) ==
    IF x.den = 0 THEN x
    ELSE Frac(RoundHalfEven(x.num * 100, x.den), 100)

\* amounts of money are held in thousandths of a dollar
Dollars(mills) == Frac(mills, 1000)

\* series.sum(): 0 for an empty series
RECURSIVE SumOver(_, _)
SumOver(series, keys) ==
    IF keys = {} THEN 0
    ELSE LET k == CHOOSE x \in keys : TRUE
         IN series[k] + SumOver(series, keys \ {k})

\* series.mean(), series.max(), series.min() of a series that is not empty
Mean(series, keys) == Frac(SumOver(series, keys), 1000 * Cardinality(keys))
MaxOf(series, keys) ==
    Dollars(CHOOSE v \in {series[k] : k \in keys} : \A k \in keys : v >= series[k])
MinOf(series, keys) ==
    Dollars(CHOOSE v \in {series[k] : k \in keys} : \A k \in keys : v <= series[k])

\* the columns of the table run_streamlit_dashboard is handed
Columns(df) == UNION {DOMAIN df[i] : i \in DOMAIN df}

\* tradeDate.dt.strftime("%Y-W%U"): the week of the year, weeks starting on
\* Sunday, the days before the first Sunday in week 0
week_str(date) ==
    [year |-> date.year,
     week |-> (DayOfYear(date) - 1 + 7 - SundayWeekday(date)) \div 7]

\* tradeDate.dt.to_period("M").astype(str)
month_str(date) == [year |-> date.year, month |-> date.month]

\* tradeDate.dt.to_period("Q").astype(str)
quarter_str(date) == [year |-> date.year, quarter |-> quarter(date)]

TimeFilters == {"Total", "All weeks", "All months", "All quarters"}

PeriodColumn(time_filter) ==
    IF time_filter = "All weeks" THEN "week_str"
    ELSE IF time_filter = "All months" THEN "month_str"
    ELSE "quarter_str"

PeriodOf(time_filter, date) ==
    IF time_filter = "All weeks" THEN week_str(date)
    ELSE IF time_filter = "All months" THEN month_str(date)
    ELSE quarter_str(date)

\* get_weeks, get_months, get_quarters: the periods offered for selection
period_options(df, time_filter) ==
    IF time_filter = "Total" THEN {}
    ELSE {PeriodOf(time_filter, df[i].tradeDate) : i \in DOMAIN df}

asset_options(df) == {df[i].assetCategory : i \in DOMAIN df}

symbol_options(df, selected_assets) ==
    {df[i].underlyingSymbol :
        i \in {j \in DOMAIN df : selected_assets # {} => df[j].assetCategory \in selected_assets}}

show_strategy(selected_assets) ==
    selected_assets \subseteq {"OPT", "FOP"} /\ selected_assets # {}

\* .dropna().unique() of optionStrategy over the rows of the selected assets
strategy_options(df, selected_assets) ==
    {df[i].optionStrategy :
        i \in {j \in DOMAIN df : /\ df[j].assetCategory \in selected_assets
                                 /\ df[j].optionStrategy # NaN}}

\* the filters by asset category, underlying symbol and option strategy;
\* by_strategy is the test that guards the strategy filter
AttributeFilters(df, sel, by_strategy) ==
    LET Kept(row) ==
            /\ sel.selected_assets # {} => row.assetCategory \in sel.selected_assets
            /\ sel.selected_symbols # {} => row.underlyingSymbol \in sel.selected_symbols
            /\ by_strategy => row.optionStrategy \in sel.selected_strategies
    IN SelectSeq(df, Kept)

\* the time filter: a table is its columns and its rows
TimeFilter_NoColumns(df, rows, sel) ==
    IF sel.time_filter = "Total"
    THEN [columns |-> Columns(df), rows |-> rows]
    ELSE IF sel.selected_periods = {}
    THEN [columns |-> {}, rows |-> <<>>]
    ELSE LET column == PeriodColumn(sel.time_filter)
             with_str == [i \in DOMAIN rows |->
                             WithColumn(rows[i], column,
                                        PeriodOf(sel.time_filter, rows[i].tradeDate))]
             Selected(row) == row[column] \in sel.selected_periods
         IN [columns |-> Columns(df) \cup {column},
             rows |-> SelectSeq(with_str, Selected)]

TimeFilter(df, rows, sel) ==
    IF sel.time_filter = "Total"
    THEN [columns |-> Columns(df), rows |-> rows]
    ELSE IF sel.selected_periods = {}
    THEN [columns |-> Columns(df), rows |-> <<>>]
    ELSE LET column == PeriodColumn(sel.time_filter)
             with_str == [i \in DOMAIN rows |->
                             WithColumn(rows[i], column,
                                        PeriodOf(sel.time_filter, rows[i].tradeDate))]
             Selected(row) == row[column] \in sel.selected_periods
         IN [columns |-> Columns(df) \cup {column},
             rows |-> SelectSeq(with_str, Selected)]

\* filtered_df.groupby("opendateTime")["PnLRealized"].sum()
trade_pnl_sum(rows) ==
    [key \in {rows[i].opendateTime : i \in DOMAIN rows} |->
        LET InGroup(row) == row.opendateTime = key
        IN SumField(SelectSeq(rows, InGroup), "PnLRealized")]

winners_OrEven(rows) == {k \in DOMAIN trade_pnl_sum(rows) : trade_pnl_sum(rows)[k] >= 0}

winners(rows) == {k \in DOMAIN trade_pnl_sum(rows) : trade_pnl_sum(rows)[k] > 0}
losers(rows) == {k \in DOMAIN trade_pnl_sum(rows) : trade_pnl_sum(rows)[k] < 0}

\* the win rate and the figures per trade
Calculations(rows) ==
    IF rows # <<>>
    THEN LET sums == trade_pnl_sum(rows)
             wins == Cardinality(winners(rows))
             total_trades == Cardinality(DOMAIN sums)
         IN [wins |-> Frac(wins, 1),
             total_trades |-> Frac(total_trades, 1),
             win_rate |-> IF total_trades > 0
                          THEN Times100(Divide(Frac(wins, 1), Frac(total_trades, 1)))
                          ELSE Zero,
             avg_loser |-> IF losers(rows) # {} THEN Mean(sums, losers(rows)) ELSE Zero,
             avg_winner |-> IF winners(rows) # {} THEN Mean(sums, winners(rows)) ELSE Zero,
             max_winner |-> IF winners(rows) # {} THEN MaxOf(sums, winners(rows)) ELSE Zero,
             max_loser |-> IF losers(rows) # {} THEN MinOf(sums, losers(rows)) ELSE Zero,
             avg_per_trade |-> IF DOMAIN sums # {} THEN Mean(sums, DOMAIN sums) ELSE Zero]
    ELSE [wins |-> Zero, total_trades |-> Zero, win_rate |-> Zero,
          avg_loser |-> Zero, avg_winner |-> Zero, max_winner |-> Zero,
          max_loser |-> Zero, avg_per_trade |-> Zero]

\* filtered_df[filtered_df["assetCategory"].isin(["FOP", "OPT"])]
IsPremiumRow(row) == row.assetCategory \in {"FOP", "OPT"}

\* sum_realized / sum_cost * 100, rounded, unless sum_cost is 0
RateOf_Unguarded(sum_realized, sum_cost) ==
    Round2(Times100(Divide(sum_realized, sum_cost)))

RateOf(sum_realized, sum_cost) ==
    IF sum_cost.num # 0
    THEN Round2(Times100(Divide(sum_realized, sum_cost)))
    ELSE Zero

\* the premium capture rate
PCR(rows) ==
    LET pcr_df == SelectSeq(rows, IsPremiumRow)
    IN IF pcr_df # <<>>
       THEN LET sum_cost == Round2(Dollars(Abs(SumField(pcr_df, "cost"))))
                sum_realized == Round2(Dollars(SumField(pcr_df, "PnLRealized")))
            IN [sum_cost |-> sum_cost, sum_realized |-> sum_realized,
                pcr |-> RateOf(sum_realized, sum_cost)]
       ELSE [sum_cost |-> Zero, sum_realized |-> Zero, pcr |-> Zero]

\* what one pass over the filters and the calculations leaves
Indicators(by, filtered_df) ==
    [by |-> by, columns |-> filtered_df.columns]
        @@ Calculations(filtered_df.rows) @@ PCR(filtered_df.rows)

\* run_streamlit_dashboard: the strategy filter needs the strategy dropdown
\* shown and a strategy selected
streamlit_filtered_df(df, sel) ==
    TimeFilter(df,
               AttributeFilters(df, sel,
                   show_strategy(sel.selected_assets) /\ sel.selected_strategies # {}),
               sel)

\* update_combined_chart_and_indicators: the strategy filter needs the
\* selected assets within OPT, FOP and a strategy selected
dash_filtered_df(df, sel) ==
    TimeFilter(df,
               AttributeFilters(df, sel,
                   sel.selected_assets \subseteq {"OPT", "FOP"} /\ sel.selected_strategies # {}),
               sel)

\* ------------------------------------------------------- get_filtered_pcr
\* df_pcr = filtered_df[filtered_df["cost"] < 0], its sums and the rate
get_filtered_pcr(df, period, value) ==
    LET filtered_df == get_filtered_data(add_period_columns(df), period, value)
        Sold(row) == row.cost < 0
        df_pcr == SelectSeq(filtered_df, Sold)
        sum_cost == Round2(Dollars(Abs(SumField(df_pcr, "cost"))))
        sum_realized == Round2(Dollars(SumField(df_pcr, "PnLRealized")))
    IN [by |-> "get_filtered_pcr",
        sum_cost |-> sum_cost, sum_realized |-> sum_realized,
        pcr |-> RateOf(sum_realized, sum_cost)]

\* ------------------------------------------------- the reporting table
\* rows of the table transform returns, as far as the dashboards read them
DashInstruments ==
    << [assetCategory |-> "OPT", underlyingSymbol |-> "AAPL", optionStrategy |-> "Long Call"],
       [assetCategory |-> "OPT", underlyingSymbol |-> "SPY", optionStrategy |-> "Short Put"],
       [assetCategory |-> "STK", underlyingSymbol |-> "MSFT", optionStrategy |-> NaN] >>

DashDates ==
    << [year |-> 2024, month |-> 1, day |-> 5],
       [year |-> 2024, month |-> 4, day |-> 2] >>

OpenInstants == <<1, 2>>

\* PnLRealized and cost in thousandths of a dollar
DashMoney ==
    << [PnLRealized |-> 750, cost |-> -1500],
       [PnLRealized |-> -504, cost |-> -1500],
       [PnLRealized |-> 0, cost |-> 1500] >>

DashRow(inst, date, instant, money) ==
    [assetCategory    |-> inst.assetCategory,
     underlyingSymbol |-> inst.underlyingSymbol,
     optionStrategy   |-> inst.optionStrategy,
     tradeDate        |-> date,
     opendateTime     |-> instant,
     PnLRealized      |-> money.PnLRealized,
     cost             |-> money.cost]

NumDashRowKinds ==
    Len(DashInstruments) * Len(DashDates) * Len(OpenInstants) * Len(DashMoney)

\* the k-th row, k in 0 .. NumDashRowKinds - 1
DashRowOf(k) ==
    LET k1 == k \div Len(DashInstruments)
        k2 == k1 \div Len(DashDates)
        k3 == k2 \div Len(OpenInstants)
    IN DashRow(DashInstruments[(k % Len(DashInstruments)) + 1],
               DashDates[(k1 % Len(DashDates)) + 1],
               OpenInstants[(k2 % Len(OpenInstants)) + 1],
               DashMoney[(k3 % Len(DashMoney)) + 1])

DashRowNumber(row) == CHOOSE k \in 0..(NumDashRowKinds - 1) : DashRowOf(k) = row

\* a table of ten trades (ten values of opendateTime): six with a positive
\* sum, one of two rows that sum to zero, three with a negative sum
TenTrades ==
    [i \in 1..11 |->
        DashRow(DashInstruments[(i % 3) + 1],
                [year |-> 2024, month |-> 1, day |-> 8],
                IF i = 11 THEN 7 ELSE i,
                [PnLRealized |-> IF i <= 7 THEN 750 ELSE IF i = 11 THEN -750 ELSE -504,
                 cost |-> -1500])]

\* none, one or all of the options of a multiselect
Choices(options) == {{}} \cup {{x} : x \in options} \cup {options}

\* the values get_filtered_data and get_filtered_pcr are called with
Periods == {"week", "month", "quarter", "year", "total"}
PeriodValues ==
    {NoValue, Number(1), Number(2), Number(14), Number(2024), Text("January"), Text("April")}

\* ------------------------------------------------------------- neutral values
NoEnv == [TOKEN |-> None, QUERY_ID |-> None, FLEX_VERSION |-> None, HEADERS |-> None]
NoConfig == [TOKEN |-> None, QUERY_ID |-> None, FLEX_VERSION |-> None, HEADERS |-> None]
NoData == [by |-> None, rows |-> <<>>]
NoSelection == [period |-> None, value |-> None]
NoMetrics == [by |-> None]

\* --------------------------------------------------------------- state
VARIABLES
    pc,          \* "build"/"rows" while the input is formed, "done" after the call
    group,       \* the leg group handed to identify_option_strategy
    strategy,    \* the value identify_option_strategy returned, None before
    df,          \* the trade table handed to categorize_options_trades
    df_options,  \* its df_options (description, dateTime_options, optionStrategy)
    df_merged,   \* the table categorize_options_trades returned
    trades,      \* the table handed to one stage of transform
    stage_mid,   \* the stage's table before its final row filter
    stage_out,   \* the table the stage returned
    now,         \* the calendar date of the run (a day number)
    reference_code, \* get_statement's argument
    attempt,     \* get_statement's loop variable
    sent,        \* GetStatement requests sent so far
    slept,       \* seconds slept so far
    xml_data,    \* the latest response, NoResponse before the first
    outcome,     \* "running", "returned" or "raised"
    error,       \* the exception raised, NoError when there is none
    run,         \* the position of run_application, "idle" outside a run
    env,         \* the environment variables load_config reads
    config,      \* the dictionary load_config returned, NoConfig before
    calls,       \* the functions called so far in this script run, in order
    table,       \* df of load_and_process_data and run_application
    cache,       \* the value st.cache_data holds for load_and_process_data
    selection,   \* the dashboard's filter selection
    metrics      \* the indicators the dashboard computed

vars == <<pc, group, strategy, df, df_options, df_merged,
          trades, stage_mid, stage_out, now,
          reference_code, attempt, sent, slept, xml_data, outcome, error,
          run, env, config, calls, table, cache, selection, metrics>>
tableVars == <<df, df_options, df_merged>>
stageVars == <<trades, stage_mid, stage_out, now>>
fetchVars == <<reference_code, attempt, sent, slept, xml_data, outcome, error>>
runVars == <<run, env, config, calls, table, cache>>
dashVars == <<selection, metrics>>

\* the parts of the state a specification does not use
NoGroup == group = <<>> /\ strategy = None
NoTable == df = <<>> /\ df_options = <<>> /\ df_merged = <<>>
NoStage == trades = <<>> /\ stage_mid = <<>> /\ stage_out = <<>> /\ now = 0
NoFetch ==
    /\ reference_code = None /\ attempt = 0 /\ sent = 0 /\ slept = 0
    /\ xml_data = NoResponse /\ outcome = "running" /\ error = NoError
NoRun ==
    /\ run = "idle" /\ env = NoEnv /\ config = NoConfig /\ calls = <<>>
    /\ table = NoData /\ cache = NoData
NoDash == selection = NoSelection /\ metrics = NoMetrics

Init ==
    /\ pc = "build"
    /\ NoGroup /\ NoTable /\ NoStage /\ NoFetch /\ NoRun /\ NoDash

\* one more option leg joins the group; legs join in non-decreasing leg
\* number, so that each multiset of legs is built once
AddLeg(k, most) ==
    /\ pc = "build"
    /\ Len(group) < most
    /\ group # <<>> => LegNumber(group[Len(group)]) <= k
    /\ group' = Append(group, LegOf(k))
    /\ UNCHANGED <<pc, strategy, tableVars, stageVars, fetchVars, runVars, dashVars>>

\* strategy = identify_option_strategy(group)
Identify ==
    /\ pc = "build"
    /\ group # <<>>
    /\ strategy' = identify_option_strategy(group)
    /\ pc' = "done"
    /\ UNCHANGED <<group, tableVars, stageVars, fetchVars, runVars, dashVars>>

Next ==
    \/ \E k \in 0..(NumLegKinds - 1) : AddLeg(k, MaxLegs)
    \/ Identify

Spec == Init /\ [][Next]_vars

\* ---- the same machine over the groups whose row orders are all tried
NextOrder ==
    \/ \E k \in 0..(NumLegKinds - 1) : AddLeg(k, MaxOrderLegs)
    \/ Identify

SpecOrder == Init /\ [][NextOrder]_vars

\* ---- the trade table: rows are appended, then the table is categorized
InitTable ==
    /\ pc = "rows"
    /\ NoGroup /\ NoTable /\ NoStage /\ NoFetch /\ NoRun /\ NoDash

AddRow(k) ==
    /\ pc = "rows"
    /\ Len(df) < MaxRows
    /\ df' = Append(df, RowOf(k))
    /\ UNCHANGED <<pc, group, strategy, df_options, df_merged, stageVars, fetchVars, runVars, dashVars>>

\* df_merged = categorize_options_trades(df)
Categorize ==
    /\ pc = "rows"
    /\ df_options' = LabelledOptions(df)
    /\ df_merged' = categorize_options_trades(df)
    /\ pc' = "done"
    /\ UNCHANGED <<group, strategy, df, stageVars, fetchVars, runVars, dashVars>>

NextTable ==
    \/ \E k \in 0..(NumRowKinds - 1) : AddRow(k)
    \/ Categorize

SpecTable == InitTable /\ [][NextTable]_vars

\* ---- the Realized-PnL Resolver on a table of rows, on one run date
InitPnl ==
    /\ pc = "rows"
    /\ NoGroup /\ NoTable /\ NoFetch /\ NoRun /\ NoDash
    /\ trades = <<>> /\ stage_mid = <<>> /\ stage_out = <<>>
    /\ now \in {RunDates[i] : i \in DOMAIN RunDates}

AddPnlRow(k) ==
    /\ pc = "rows"
    /\ Len(trades) < MaxPnlRows
    /\ trades' = Append(trades, PnlRowOf(k))
    /\ UNCHANGED <<pc, group, strategy, tableVars, stage_mid, stage_out, now, fetchVars, runVars, dashVars>>

Resolve ==
    /\ pc = "rows"
    /\ stage_mid' = WithPnLRealized(trades, Today(now))
    /\ stage_out' = ResolvePnL(trades, now)
    /\ pc' = "done"
    /\ UNCHANGED <<group, strategy, tableVars, trades, now, fetchVars, runVars, dashVars>>

NextPnl ==
    \/ \E k \in 0..(NumPnlRowKinds - 1) : AddPnlRow(k)
    \/ Resolve

SpecPnl == InitPnl /\ [][NextPnl]_vars

\* ---- the Duplicate Collapser on a table of rows; the stages of transform
\* all start from an empty table
InitStage ==
    /\ pc = "rows"
    /\ NoGroup /\ NoTable /\ NoStage /\ NoFetch /\ NoRun /\ NoDash

AddDayRow(k) ==
    /\ pc = "rows"
    /\ Len(trades) < MaxDayRows
    /\ trades' = Append(trades, DayRowOf(k))
    /\ UNCHANGED <<pc, group, strategy, tableVars, stage_mid, stage_out, now, fetchVars, runVars, dashVars>>

Collapse ==
    /\ pc = "rows"
    /\ stage_out' = CollapseDuplicates(trades)
    /\ pc' = "done"
    /\ UNCHANGED <<group, strategy, tableVars, trades, stage_mid, now, fetchVars, runVars, dashVars>>

NextDay ==
    \/ \E k \in 0..(NumDayRowKinds - 1) : AddDayRow(k)
    \/ Collapse

SpecDay == InitStage /\ [][NextDay]_vars

\* ---- the Open/Close Linker on the table the Consolidator returns
AddFill(k) ==
    /\ pc = "rows"
    /\ Len(trades) < MaxFills
    /\ trades' = Append(trades, FillOf(k))
    /\ UNCHANGED <<pc, group, strategy, tableVars, stage_mid, stage_out, now, fetchVars, runVars, dashVars>>

Link ==
    /\ pc = "rows"
    /\ stage_mid' = ConsolidatePartials(trades)
    /\ stage_out' = LinkOpenClose(ConsolidatePartials(trades))
    /\ pc' = "done"
    /\ UNCHANGED <<group, strategy, tableVars, trades, now, fetchVars, runVars, dashVars>>

NextLink ==
    \/ \E k \in 0..(NumFillKinds - 1) : AddFill(k)
    \/ Link

SpecLink == InitStage /\ [][NextLink]_vars

\* ---- the Partial-Fill Consolidator on a table of fills, run once and then
\* again on the table it returned
Consolidate ==
    /\ pc = "rows"
    /\ stage_mid' = ConsolidatePartials(trades)
    /\ pc' = "once"
    /\ UNCHANGED <<group, strategy, tableVars, trades, stage_out, now, fetchVars, runVars, dashVars>>

ConsolidateAgain ==
    /\ pc = "once"
    /\ stage_out' = ConsolidatePartials(stage_mid)
    /\ pc' = "done"
    /\ UNCHANGED <<group, strategy, tableVars, trades, stage_mid, now, fetchVars, runVars, dashVars>>

NextFills ==
    \/ \E k \in 0..(NumFillKinds - 1) : AddFill(k)
    \/ Consolidate
    \/ ConsolidateAgain

SpecFills == InitStage /\ [][NextFills]_vars

\* ---- one call of get_statement
otherVars == <<group, strategy, tableVars, stageVars, runVars, dashVars>>

InitFetch ==
    /\ pc = "request"
    /\ NoGroup /\ NoTable /\ NoStage /\ NoRun /\ NoDash
    /\ reference_code \in {ReferenceCodes[i] : i \in DOMAIN ReferenceCodes}
    /\ attempt = 0 /\ sent = 0 /\ slept = 0
    /\ xml_data = NoResponse /\ outcome = "running" /\ error = NoError

\* the loop head and the request: with the attempts used up the function ends
\* without a value
Request(response) ==
    /\ pc = "request"
    /\ IF attempt < max_retries
       THEN /\ sent' = sent + 1
            /\ xml_data' = response
            /\ IF response = NoResponse
               THEN pc' = "done" /\ outcome' = "raised" /\ error' = ConnectionError
               ELSE pc' = "inspect" /\ UNCHANGED <<outcome, error>>
       ELSE /\ pc' = "done" /\ outcome' = "returned"
            /\ UNCHANGED <<sent, xml_data, error>>
    /\ UNCHANGED <<reference_code, attempt, slept, otherVars>>

\* the try block on the response in hand
Inspect ==
    /\ pc = "inspect"
    /\ IF ParseError(xml_data)
       THEN pc' = "done" /\ outcome' = "returned" /\ UNCHANGED error
       ELSE LET error_code == findtext(xml_data, "ErrorCode", None)
            IN IF GenerationPending(error_code)
               THEN IF MayRetry(attempt)
                    THEN pc' = "sleep" /\ UNCHANGED <<outcome, error>>
                    ELSE /\ pc' = "done" /\ outcome' = "raised"
                         /\ error' = FlexQueryError("1019",
                               findtext(xml_data, "ErrorMessage",
                                   "Statement generation in progress. Maximum retries exceeded."))
               ELSE IF Truthy(error_code)
                    THEN /\ pc' = "done" /\ outcome' = "raised"
                         /\ error' = FlexQueryError(error_code,
                               findtext(xml_data, "ErrorMessage", "Unknown error"))
                    ELSE pc' = "done" /\ outcome' = "returned" /\ UNCHANGED error
    /\ UNCHANGED <<reference_code, attempt, sent, slept, xml_data, otherVars>>

\* time.sleep(retry_delay); continue
Sleep ==
    /\ pc = "sleep"
    /\ slept' = slept + retry_delay
    /\ attempt' = attempt + 1
    /\ pc' = "request"
    /\ UNCHANGED <<reference_code, sent, xml_data, outcome, error, otherVars>>

NextFetch ==
    \/ \E response \in Responses : Request(response)
    \/ Inspect
    \/ Sleep

SpecFetch == InitFetch /\ [][NextFetch]_vars

\* the call runs on one thread: a step that can be taken is taken
SpecFetchFair == SpecFetch /\ WF_vars(NextFetch)

\* ---- run_application: the script runs, and runs again on a user action
notRunVars == <<group, strategy, tableVars, stageVars, dashVars>>

InitRun ==
    /\ pc = "run"
    /\ NoGroup /\ NoTable /\ NoStage /\ NoFetch /\ NoDash
    /\ run = "start"
    /\ env \in Envs
    /\ config = NoConfig /\ calls = <<>> /\ table = NoData /\ cache = NoData

\* df = load_and_process_data(): st.cache_data hands out the value it holds
\* and runs the function only when it holds none
Start ==
    /\ run = "start"
    /\ IF cache.by # None
       THEN table' = cache /\ run' = "dashboard"
       ELSE table' = table /\ run' = "load_config"
    /\ UNCHANGED <<pc, env, config, calls, cache, fetchVars, notRunVars>>

LoadConfig ==
    /\ run = "load_config"
    /\ calls' = Append(calls, "load_config")
    /\ IF ConfigProblem(env) # None
       THEN /\ error' = ValueError(ConfigProblem(env))
            /\ run' = "failed"
            /\ UNCHANGED config
       ELSE /\ config' = load_config(env)
            /\ run' = "send_request"
            /\ UNCHANGED error
    /\ UNCHANGED <<pc, env, table, cache, notRunVars,
                   reference_code, attempt, sent, slept, xml_data, outcome>>

SendRequest(response) ==
    /\ run = "send_request"
    /\ calls' = Append(calls, "send_request")
    /\ IF SendRequestError(response) # NoError
       THEN /\ error' = SendRequestError(response)
            /\ run' = "failed"
            /\ UNCHANGED reference_code
       ELSE /\ reference_code' = findtext(response, "ReferenceCode", None)
            /\ run' = "sleep"
            /\ UNCHANGED error
    /\ UNCHANGED <<pc, env, config, table, cache, notRunVars,
                   attempt, sent, slept, xml_data, outcome>>

\* time.sleep(5), then the call of get_statement
CallGetStatement ==
    /\ run = "sleep"
    /\ slept' = slept + generation_wait
    /\ calls' = Append(calls, "get_statement")
    /\ run' = "get_statement"
    /\ pc' = "request"
    /\ UNCHANGED <<env, config, table, cache, notRunVars,
                   reference_code, attempt, sent, xml_data, outcome, error>>

\* get_statement has ended: its exception ends the run, its value, the Trade
\* rows of the response, is df
GetStatementEnds(rows) ==
    /\ run = "get_statement"
    /\ pc = "done"
    /\ pc' = "run"
    /\ IF outcome = "raised"
       THEN run' = "failed" /\ UNCHANGED table
       ELSE /\ table' = [by |-> "get_statement", rows |-> rows]
            /\ run' = "process_statement_data"
    /\ UNCHANGED <<env, config, calls, cache, fetchVars, notRunVars>>

ProcessStatementData ==
    /\ run = "process_statement_data"
    /\ calls' = Append(calls, "process_statement_data")
    /\ IF ProcessError(table.rows) # NoError
       THEN /\ error' = ProcessError(table.rows)
            /\ run' = "failed"
            /\ UNCHANGED table
       ELSE /\ table' = [by |-> "process_statement_data",
                         rows |-> process_statement_data(table.rows)]
            /\ run' = "transform"
            /\ UNCHANGED error
    /\ UNCHANGED <<pc, env, config, cache, notRunVars,
                   reference_code, attempt, sent, slept, xml_data, outcome>>

\* df = transform(df); return df: the value is kept by st.cache_data. What
\* transform does to the rows is the subject of the stages above; here it is
\* the table it is handed that matters
Transform ==
    /\ run = "transform"
    /\ calls' = Append(calls, "transform")
    /\ trades' = table.rows
    /\ table' = [by |-> "transform", rows |-> table.rows]
    /\ cache' = [by |-> "transform", rows |-> table.rows]
    /\ run' = "dashboard"
    /\ UNCHANGED <<pc, env, config, fetchVars, group, strategy, tableVars,
                   stage_mid, stage_out, now, dashVars>>

\* run_streamlit_dashboard(df)
Dashboard ==
    /\ run = "dashboard"
    /\ calls' = Append(calls, "run_streamlit_dashboard")
    /\ df' = table.rows
    /\ run' = "shown"
    /\ UNCHANGED <<pc, env, config, table, cache, fetchVars, group, strategy,
                   df_options, df_merged, stageVars, dashVars>>

\* a user action runs the script again from the top; the refresh button
\* clears the cache first
Rerun(refresh) ==
    /\ run \in {"shown", "failed"}
    /\ run' = "start"
    /\ pc' = "run"
    /\ cache' = IF refresh THEN NoData ELSE cache
    /\ config' = NoConfig /\ calls' = <<>> /\ table' = NoData
    /\ reference_code' = None /\ attempt' = 0 /\ sent' = 0 /\ slept' = 0
    /\ xml_data' = NoResponse /\ outcome' = "running" /\ error' = NoError
    /\ trades' = <<>> /\ df' = <<>>
    /\ UNCHANGED <<env, group, strategy, df_options, df_merged,
                   stage_mid, stage_out, now, dashVars>>

NextRun ==
    \/ Start
    \/ LoadConfig
    \/ \E response \in SendResponses : SendRequest(response)
    \/ CallGetStatement
    \/ \E response \in Responses : Request(response)
    \/ Inspect
    \/ Sleep
    \/ \E rows \in RawTables : GetStatementEnds(rows)
    \/ ProcessStatementData
    \/ Transform
    \/ Dashboard
    \/ \E refresh \in BOOLEAN : Rerun(refresh)

SpecRun == InitRun /\ [][NextRun]_vars

\* ---- the dashboards: a reporting table is formed, then one of the
\* dashboards filters it and computes its indicators, or one of the helpers
\* of transformations.py is called on it
InitDash ==
    /\ pc = "table"
    /\ trades \in {<<>>, TenTrades}
    /\ NoGroup /\ NoTable /\ NoFetch /\ NoRun /\ NoDash
    /\ stage_mid = <<>> /\ stage_out = <<>> /\ now = 0

\* rows join in non-decreasing row number, so that each multiset of rows is
\* built once
AddDashRow(k) ==
    /\ pc = "table"
    /\ Len(trades) < MaxDashRows
    /\ trades # <<>> => DashRowNumber(trades[Len(trades)]) <= k
    /\ trades' = Append(trades, DashRowOf(k))
    /\ UNCHANGED <<pc, group, strategy, tableVars, stage_mid, stage_out, now,
                   fetchVars, runVars, dashVars>>

\* the selections tried: none, one or all of the options of each multiselect
Selections(rows) ==
    [time_filter : TimeFilters,
     selected_assets : Choices(asset_options(rows)),
     selected_symbols : Choices(symbol_options(rows, {})),
     selected_strategies : Choices(strategy_options(rows, asset_options(rows))),
     selected_periods : UNION {Choices(period_options(rows, f)) : f \in TimeFilters}]

\* run_streamlit_dashboard(df) with one selection in the sidebar: each
\* multiselect offers the options computed from df and the selections above
RunStreamlitDashboard ==
    /\ pc = "table"
    /\ \E sel \in Selections(trades) :
          /\ sel.selected_symbols \in Choices(symbol_options(trades, sel.selected_assets))
          /\ sel.selected_strategies \in
                (IF show_strategy(sel.selected_assets)
                 THEN Choices(strategy_options(trades, sel.selected_assets))
                 ELSE {{}})
          /\ sel.selected_periods \in Choices(period_options(trades, sel.time_filter))
          /\ selection' = sel
          /\ LET filtered_df == streamlit_filtered_df(trades, sel)
             IN /\ stage_out' = filtered_df.rows
                /\ metrics' = Indicators("run_streamlit_dashboard", filtered_df)
    /\ pc' = "done"
    /\ UNCHANGED <<group, strategy, tableVars, trades, stage_mid, now, fetchVars, runVars>>

\* update_combined_chart_and_indicators with the values of the five inputs
UpdateCombinedChart ==
    /\ pc = "table"
    /\ \E sel \in Selections(trades) :
          /\ sel.selected_symbols \in Choices(symbol_options(trades, sel.selected_assets))
          /\ sel.selected_periods \in Choices(period_options(trades, sel.time_filter))
          /\ selection' = sel
          /\ LET filtered_df == dash_filtered_df(trades, sel)
             IN /\ stage_out' = filtered_df.rows
                /\ metrics' = Indicators("update_combined_chart_and_indicators", filtered_df)
    /\ pc' = "done"
    /\ UNCHANGED <<group, strategy, tableVars, trades, stage_mid, now, fetchVars, runVars>>

\* get_filtered_data(df, period, value) on the table with its period columns
GetFilteredData(period, value) ==
    /\ pc = "table"
    /\ selection' = [period |-> period, value |-> value]
    /\ stage_mid' = add_period_columns(trades)
    /\ stage_out' = get_filtered_data(add_period_columns(trades), period, value)
    /\ metrics' = [by |-> "get_filtered_data"]
    /\ pc' = "done"
    /\ UNCHANGED <<group, strategy, tableVars, trades, now, fetchVars, runVars>>

\* get_filtered_pcr(df, period, value)
GetFilteredPcr(period, value) ==
    /\ pc = "table"
    /\ selection' = [period |-> period, value |-> value]
    /\ stage_mid' = add_period_columns(trades)
    /\ stage_out' = get_filtered_data(add_period_columns(trades), period, value)
    /\ metrics' = get_filtered_pcr(trades, period, value)
    /\ pc' = "done"
    /\ UNCHANGED <<group, strategy, tableVars, trades, now, fetchVars, runVars>>

NextDash ==
    \/ \E k \in 0..(NumDashRowKinds - 1) : AddDashRow(k)
    \/ RunStreamlitDashboard
    \/ UpdateCombinedChart
    \/ \E period \in Periods, value \in PeriodValues : GetFilteredData(period, value)
    \/ \E period \in Periods, value \in PeriodValues : GetFilteredPcr(period, value)

SpecDash == InitDash /\ [][NextDash]_vars

TypeOK ==
    pc \in {"build", "rows", "once", "request", "inspect", "sleep", "done", "run", "table"}

\* =================================================================== claims
\* the call of identify_option_strategy on group has returned strategy
Returned == pc = "done" /\ group # <<>>

\* the legs of a two-leg group with one SELL leg and one BUY leg
OneSellOneBuy ==
    Len(group) = 2 /\ {group[1].buySell, group[2].buySell} = {"SELL", "BUY"}
SellLeg == group[CHOOSE i \in 1..2 : group[i].buySell = "SELL"]
BuyLeg == group[CHOOSE i \in 1..2 : group[i].buySell = "BUY"]
BothLegs(putCall) == \A i \in DOMAIN group : group[i].putCall = putCall
OneExpiry == \A i, j \in DOMAIN group : group[i].expiry = group[j].expiry
HasPutAndCall == \E i, j \in DOMAIN group : group[i].putCall = "P" /\ group[j].putCall = "C"
HasBuyAndSell == \E i, j \in DOMAIN group : group[i].buySell = "BUY" /\ group[j].buySell = "SELL"

\* the strikes of a leg group in ascending order: the non-decreasing
\* arrangement with the same number of legs at each strike
Ascending(g) ==
    LET vals == {g[i].strike : i \in DOMAIN g}
        Count(f, v) == Cardinality({i \in DOMAIN g : f[i] = v})
        strikeOf == [i \in DOMAIN g |-> g[i].strike]
    IN CHOOSE s \in [DOMAIN g -> vals] :
          /\ \A i \in DOMAIN g : i > 1 => s[i - 1] <= s[i]
          /\ \A v \in vals : Count(s, v) = Count(strikeOf, v)

\* C1: a group of exactly one leg is labelled Long Call for (C, BUY), Short
\* Call for (C, SELL), Long Put for (P, BUY) and Short Put for (P, SELL),
\* whatever the leg's strike and expiry.
C1_SingleLegLabels ==
    (Returned /\ Len(group) = 1) =>
        LET leg == group[1] IN
        /\ (leg.putCall = "C" /\ leg.buySell = "BUY")  => strategy = "Long Call"
        /\ (leg.putCall = "C" /\ leg.buySell = "SELL") => strategy = "Short Call"
        /\ (leg.putCall = "P" /\ leg.buySell = "BUY")  => strategy = "Long Put"
        /\ (leg.putCall = "P" /\ leg.buySell = "SELL") => strategy = "Short Put"

C1_Witness ==
    /\ Returned /\ Len(group) = 1
    /\ group[1].putCall = "P" /\ group[1].buySell = "BUY"
    /\ group[1].strike = 110 /\ group[1].expiry = 20240112
    /\ strategy = "Long Put"

\* C2: a two-leg group with one common expiry, one SELL and one BUY leg is
\* a Bear Call Spread (two calls, sell strike below buy strike), a Bull Call
\* Spread (two calls, sell strike at or above buy strike), a Bear Put Spread
\* (two puts, sell below buy) or a Bull Put Spread (two puts otherwise).
C2_VerticalSpreads ==
    (Returned /\ OneSellOneBuy /\ OneExpiry) =>
        /\ (BothLegs("C") /\ SellLeg.strike < BuyLeg.strike)
                => strategy = "Bear Call Spread"
        /\ (BothLegs("C") /\ SellLeg.strike >= BuyLeg.strike)
                => strategy = "Bull Call Spread"
        /\ (BothLegs("P") /\ SellLeg.strike < BuyLeg.strike)
                => strategy = "Bear Put Spread"
        /\ (BothLegs("P") /\ SellLeg.strike >= BuyLeg.strike)
                => strategy = "Bull Put Spread"

C2_Witness ==
    /\ Returned /\ OneSellOneBuy /\ OneExpiry /\ BothLegs("C")
    /\ SellLeg.strike = BuyLeg.strike
    /\ strategy = "Bull Call Spread"

\* C3: a four-leg group with one common expiry, both puts and calls and
\* both BUY and SELL legs is an Iron Condor when its sorted strikes are
\* strictly increasing and an Iron Butterfly when the two middle sorted
\* strikes are equal; strikes [95,100,100,105] give Iron Butterfly, and
\* moving one of the middle strikes so that all four differ gives Iron Condor.
MovedStrike(g, i, x) ==
    [j \in DOMAIN g |->
        [putCall |-> g[j].putCall, buySell |-> g[j].buySell,
         strike |-> IF j = i THEN x ELSE g[j].strike, expiry |-> g[j].expiry]]

C3_IronCondorButterfly ==
    (Returned /\ Len(group) = 4 /\ OneExpiry /\ HasPutAndCall /\ HasBuyAndSell) =>
        LET s == Ascending(group) IN
        /\ (s[1] < s[2] /\ s[2] < s[3] /\ s[3] < s[4]) => strategy = "Iron Condor"
        /\ s[2] = s[3] => strategy = "Iron Butterfly"
        /\ s = <<95, 100, 100, 105>> =>
              /\ strategy = "Iron Butterfly"
              /\ \A i \in 1..4 :
                    group[i].strike = 100 =>
                        identify_option_strategy(MovedStrike(group, i, 110)) = "Iron Condor"

C3_Witness ==
    /\ Returned /\ Len(group) = 4 /\ OneExpiry /\ HasPutAndCall /\ HasBuyAndSell
    /\ Ascending(group) = <<95, 100, 100, 105>>
    /\ strategy = "Iron Butterfly"

\* C4: a two-leg group whose legs have different expiries, with one SELL
\* and one BUY leg, is a Calendar Call Spread (two calls, equal strikes), a
\* Diagonal Call Spread (two calls, sell strike above buy strike), a Calendar
\* Put Spread (two puts, equal strikes) or a Diagonal Put Spread (two puts,
\* sell strike below buy strike).
C4_CalendarDiagonal ==
    (Returned /\ OneSellOneBuy /\ ~OneExpiry) =>
        /\ (BothLegs("C") /\ SellLeg.strike = BuyLeg.strike)
                => strategy = "Calendar Call Spread"
        /\ (BothLegs("C") /\ SellLeg.strike > BuyLeg.strike)
                => strategy = "Diagonal Call Spread"
        /\ (BothLegs("P") /\ SellLeg.strike = BuyLeg.strike)
                => strategy = "Calendar Put Spread"
        /\ (BothLegs("P") /\ SellLeg.strike < BuyLeg.strike)
                => strategy = "Diagonal Put Spread"

C4_Witness ==
    /\ Returned /\ OneSellOneBuy /\ ~OneExpiry /\ BothLegs("C")
    /\ SellLeg.strike > BuyLeg.strike
    /\ strategy = "Diagonal Call Spread"

\* C5 (as stated): a four-leg group with one common expiry, puts and calls,
\* BUY and SELL legs, whose sorted strikes satisfy s0 = s1 and s2 = s3 is a
\* Box Spread.
C5_BoxSpread_AsStated ==
    (Returned /\ Len(group) = 4 /\ OneExpiry /\ HasPutAndCall /\ HasBuyAndSell) =>
        LET s == Ascending(group) IN
        (s[1] = s[2] /\ s[3] = s[4]) => strategy = "Box Spread"

\* C5 (amended): such a group is a Box Spread when its sorted strikes form
\* two equal pairs at two different strikes (s0 = s1 < s2 = s3); when all
\* four strikes are equal the Iron Butterfly rule answers first.
C5_BoxSpread ==
    (Returned /\ Len(group) = 4 /\ OneExpiry /\ HasPutAndCall /\ HasBuyAndSell) =>
        LET s == Ascending(group) IN
        /\ (s[1] = s[2] /\ s[2] < s[3] /\ s[3] = s[4]) => strategy = "Box Spread"
        /\ (s[1] = s[2] /\ s[2] = s[3] /\ s[3] = s[4]) => strategy = "Iron Butterfly"

C5_Witness ==
    /\ Returned /\ Len(group) = 4 /\ OneExpiry /\ HasPutAndCall /\ HasBuyAndSell
    /\ Ascending(group) = <<100, 100, 105, 105>>
    /\ strategy = "Box Spread"

\* C6: a four-leg group with one common expiry, BUY and SELL legs and
\* sorted strikes wing < body = body < wing is a Long Put Butterfly when all
\* legs are puts and a Long Call Butterfly when all legs are calls.
C6_LongButterflies ==
    (Returned /\ Len(group) = 4 /\ OneExpiry /\ HasBuyAndSell) =>
        LET s == Ascending(group) IN
        (s[1] < s[2] /\ s[2] = s[3] /\ s[3] < s[4]) =>
            /\ BothLegs("P") => strategy = "Long Put Butterfly"
            /\ BothLegs("C") => strategy = "Long Call Butterfly"

C6_Witness ==
    /\ Returned /\ Len(group) = 4 /\ OneExpiry /\ HasBuyAndSell /\ BothLegs("C")
    /\ Ascending(group) = <<95, 105, 105, 110>>
    /\ strategy = "Long Call Butterfly"

\* the labels identify_option_strategy can name
StrategyVocabulary ==
    {"Long Call", "Short Call", "Long Put", "Short Put",
     "Bear Call Spread", "Bull Call Spread", "Bear Put Spread", "Bull Put Spread",
     "Straddle", "Strangle",
     "Calendar Call Spread", "Calendar Put Spread",
     "Diagonal Call Spread", "Diagonal Put Spread",
     "Iron Condor", "Iron Butterfly", "Long Put Butterfly", "Long Call Butterfly",
     "Box Spread", "Other"}

C8_OrderInvariant ==
    Returned =>
        \A order \in Orders[Len(group)] :
            identify_option_strategy(Reorder(group, order)) = strategy

C8_Witness ==
    /\ Returned /\ OneSellOneBuy /\ OneExpiry /\ BothLegs("P")
    /\ group[1].buySell = "SELL" /\ group[1].strike < group[2].strike
    /\ strategy = "Bear Put Spread"
    /\ identify_option_strategy(<<group[2], group[1]>>) = "Bear Put Spread"

\* C9: no two-leg group is labelled Straddle or Strangle, and a two-leg
\* group of one put and one call, both BUY, is labelled Other whatever its
\* strikes and expiries.
C9_NoStraddleStrangle ==
    (Returned /\ Len(group) = 2) =>
        /\ strategy \notin {"Straddle", "Strangle"}
        /\ (HasPutAndCall /\ group[1].buySell = "BUY" /\ group[2].buySell = "BUY")
                => strategy = "Other"

C9_Witness ==
    /\ Returned /\ Len(group) = 2 /\ HasPutAndCall /\ OneExpiry
    /\ group[1].buySell = "BUY" /\ group[2].buySell = "BUY"
    /\ group[1].strike = group[2].strike
    /\ strategy = "Other"

\* the opening option rows of df, in row order, written from the table itself
Categorized == pc = "done" /\ df # <<>>
OpeningOptionRows ==
    SelectSeq(df, LAMBDA row : row.openCloseIndicator = "O"
                               /\ (row.assetCategory = "OPT" \/ row.assetCategory = "FOP"))
LegsAt(dateTime) == SelectSeq(OpeningOptionRows, LAMBDA row : row.dateTime = dateTime)

\* C10: the leg groups are formed only from the rows with openCloseIndicator
\* O and assetCategory OPT or FOP (closing rows and other assets are never
\* legs), all such rows of one dateTime form one group whatever their
\* description, and every leg of a group carries the group's one label.
C10_GroupsByDateTime ==
    Categorized =>
        /\ Len(df_options) = Len(OpeningOptionRows)
        /\ \A i \in DOMAIN df_options :
              /\ df_options[i].description = OpeningOptionRows[i].description
              /\ df_options[i].dateTime_options = OpeningOptionRows[i].dateTime
              /\ df_options[i].optionStrategy =
                    identify_option_strategy(LegsAt(df_options[i].dateTime_options))
        /\ \A i, j \in DOMAIN df_options :
              df_options[i].dateTime_options = df_options[j].dateTime_options
                  => df_options[i].optionStrategy = df_options[j].optionStrategy

C10_Witness ==
    /\ Categorized /\ Len(df) = 2 /\ Len(df_options) = 2
    /\ df[1].description # df[2].description
    /\ df[1].dateTime = df[2].dateTime
    /\ df[1].assetCategory = "OPT" /\ df[2].assetCategory = "OPT"
    /\ df_options[1].optionStrategy = "Bull Call Spread"
    /\ df_options[2].optionStrategy = "Bull Call Spread"

\* C11: a row of the returned table has an optionStrategy if and only if
\* some opening OPT/FOP row has its description and a dateTime equal to its
\* opendateTime; the value is then the label of that opening leg's dateTime
\* group; every other row has a missing optionStrategy.
HasOpeningLeg(row) ==
    \E i \in DOMAIN OpeningOptionRows :
        /\ OpeningOptionRows[i].description = row.description
        /\ OpeningOptionRows[i].dateTime = row.opendateTime

C11_StrategyIffOpeningLeg ==
    Categorized =>
        /\ \A i \in DOMAIN df : \E j \in DOMAIN df_merged :
              \A c \in DOMAIN df[i] : df_merged[j][c] = df[i][c]
        /\ \A j \in DOMAIN df_merged :
              /\ df_merged[j].optionStrategy # NaN <=> HasOpeningLeg(df_merged[j])
              /\ HasOpeningLeg(df_merged[j]) =>
                    df_merged[j].optionStrategy =
                        identify_option_strategy(LegsAt(df_merged[j].opendateTime))

C11_Witness ==
    /\ Categorized /\ Len(df) = 2 /\ Len(df_merged) = 2
    /\ df[1].description = df[2].description
    /\ df[1].assetCategory = "OPT" /\ df[1].openCloseIndicator = "O"
    /\ df[2].openCloseIndicator = "C" /\ df[2].opendateTime = df[1].dateTime
    /\ df[1].opendateTime # df[1].dateTime
    /\ df_merged[2].optionStrategy = "Long Call"
    /\ df_merged[1].optionStrategy = NaN

\* C12: every row's PnLRealized is mtmPnl + ibCommission when tradeDate =
\* expiry, fifoPnlRealized = 0 and settleDateTarget lies in [today, today + 3
\* days], and fifoPnlRealized in every other case: tradeDate = expiry, fifo 0,
\* settlement today, mtmPnl 100, ibCommission -1 give 99; fifoPnlRealized 50
\* with the settlement passed gives 50.
Resolved == pc = "done" /\ trades # <<>>

Count(rows, x) == Cardinality({i \in DOMAIN rows : rows[i] = x})

\* the positions of the rows of one (description, tradeDate) group
DayGroup(rows, description, tradeDate) ==
    {i \in DOMAIN rows : rows[i].description = description /\ rows[i].tradeDate = tradeDate}

Closings(rows, g) == {i \in g : rows[i].openCloseIndicator = "C"}
Openings(rows, g) == {i \in g : rows[i].openCloseIndicator = "O"}

DayPairs(rows) == {<<rows[i].description, rows[i].tradeDate>> : i \in DOMAIN rows}

Collapsed == pc = "done" /\ trades # <<>>

\* C13: a (description, tradeDate) group with a closing row keeps all its
\* closing rows and exactly the opening rows dated strictly after its latest
\* closing row; a group without a closing row passes unchanged; an 'O' row at
\* 09:31 and a 'C' row at 15:59 of one description and tradeDate leave only
\* the 'C' row.
C13_CollapseRule ==
    Collapsed =>
        /\ \A p \in DayPairs(trades) :
              LET g == DayGroup(trades, p[1], p[2])
                  cl == Closings(trades, g)
              IN \A i \in g :
                    LET kept == \/ cl = {}
                                \/ i \in cl
                                \/ \A c \in cl : trades[i].dateTime > trades[c].dateTime
                    IN Count(stage_out, trades[i]) = IF kept THEN Count(trades, trades[i]) ELSE 0
        /\ \A j \in DOMAIN stage_out : Count(trades, stage_out[j]) > 0
        /\ (/\ Len(trades) = 2
            /\ trades[1].description = trades[2].description
            /\ trades[1].tradeDate = trades[2].tradeDate
            /\ trades[1].openCloseIndicator = "O" /\ trades[1].dateTime % 10000 = 931
            /\ trades[2].openCloseIndicator = "C" /\ trades[2].dateTime % 10000 = 1559)
              => stage_out = << trades[2] >>

C13_Witness ==
    /\ Collapsed /\ Len(trades) = 2
    /\ trades[1].description = "AAPL 150C" /\ trades[2].description = "AAPL 150C"
    /\ trades[1].tradeDate = 5 /\ trades[2].tradeDate = 5
    /\ trades[1].openCloseIndicator = "O" /\ trades[1].dateTime = 50931
    /\ trades[2].openCloseIndicator = "C" /\ trades[2].dateTime = 51559
    /\ stage_out = << trades[2] >>

\* a pair that had an opening row and a realized closing row in the input
OpenAndRealizedClose(p) ==
    LET g == DayGroup(trades, p[1], p[2])
    IN /\ Openings(trades, g) # {}
       /\ \E c \in Closings(trades, g) : trades[c].PnLRealized # 0

Linked == pc = "done" /\ trades # <<>>

\* the earliest dateTime among the rows at the positions s
Earliest(rows, s) ==
    CHOOSE t \in {rows[i].dateTime : i \in s} : \A i \in s : t <= rows[i].dateTime

\* C15 as stated: after the Linker every row carries a non-null opendateTime,
\* the same within its description group, equal to the dateTime of the
\* group's earliest opening fill, or of its earliest fill when it has no
\* opening fill, whatever the order of the input rows.
C15_EarliestOpeningFill ==
    Linked =>
        \A i \in DOMAIN stage_out :
            LET grp == {j \in DOMAIN stage_out :
                           stage_out[j].description = stage_out[i].description}
                opening == {j \in grp : stage_out[j].openCloseIndicator = "O"}
            IN /\ "opendateTime" \in DOMAIN stage_out[i] /\ stage_out[i].opendateTime \in Nat
               /\ \A j \in grp : stage_out[j].opendateTime = stage_out[i].opendateTime
               /\ stage_out[i].opendateTime =
                      IF opening # {} THEN Earliest(stage_out, opening)
                      ELSE Earliest(stage_out, grp)

\* C16 as stated: every row of the linked table has opendateTime <= dateTime,
\* closing rows dated before the first opening fill of their group included.
C16_OpenNotAfterFill ==
    Linked => \A i \in DOMAIN stage_out : stage_out[i].opendateTime <= stage_out[i].dateTime

Consolidated == pc \in {"once", "done"} /\ trades # <<>>

\* the sum of column c over the rows at the positions s
RECURSIVE Total(_, _, _)
Total(rows, s, c) ==
    IF s = {} THEN 0
    ELSE LET i == CHOOSE j \in s : TRUE
         IN rows[i][c] + Total(rows, s \ {i}, c)

Money == {"ibCommission", "cost", "fifoPnlRealized", "mtmPnl"}

\* two rows agree on every field that is neither monetary nor notes
SameTrade(a, b) == \A c \in (DOMAIN a \ Money) \ {"notes"} : a[c] = b[c]

PartialAt(rows) == {i \in DOMAIN rows : rows[i].notes = "P"}

\* C17: each group of partial fills that agree on all fields but the monetary
\* ones and notes leaves exactly one row, whose four monetary fields are the
\* sums over the group's fills; the other rows keep their values; so every
\* monetary column has the same total before and after.
C17_Conservation ==
    Consolidated =>
        /\ \A i \in PartialAt(trades) :
              LET fills == {k \in PartialAt(trades) : SameTrade(trades[k], trades[i])}
                  out == {j \in PartialAt(stage_mid) : SameTrade(stage_mid[j], trades[i])}
              IN /\ Cardinality(out) = 1
                 /\ \A j \in out : \A c \in Money :
                       stage_mid[j][c] = Total(trades, fills, c)
        /\ \A i \in DOMAIN trades \ PartialAt(trades) :
              Count(stage_mid, trades[i]) = Count(trades, trades[i])
        /\ \A j \in DOMAIN stage_mid :
              \E i \in DOMAIN trades :
                  SameTrade(stage_mid[j], trades[i]) /\ stage_mid[j].notes = trades[i].notes
        /\ \A c \in Money :
              Total(stage_mid, DOMAIN stage_mid, c) = Total(trades, DOMAIN trades, c)

C17_Witness ==
    /\ pc = "once" /\ Len(trades) = 3 /\ Len(stage_mid) = 2
    /\ PartialAt(trades) = {1, 3}
    /\ SameTrade(trades[1], trades[3])
    /\ trades[1].cost = 100 /\ trades[3].cost = 250
    /\ \E j \in DOMAIN stage_mid :
          /\ stage_mid[j].notes = "P"
          /\ stage_mid[j].ibCommission = -3 /\ stage_mid[j].cost = 350
          /\ stage_mid[j].fifoPnlRealized = 50 /\ stage_mid[j].mtmPnl = -2

\* C18: after the Consolidator no two rows with notes 'P' agree on all
\* non-monetary fields, and the Consolidator run on its own output returns
\* the same table: same rows, same values, same order.
C18_Idempotent ==
    /\ Consolidated =>
          \A i, j \in PartialAt(stage_mid) : SameTrade(stage_mid[i], stage_mid[j]) => i = j
    /\ (pc = "done" /\ trades # <<>>) => stage_out = stage_mid

C18_Witness ==
    /\ pc = "done" /\ Len(trades) = 3 /\ Len(stage_mid) = 2
    /\ PartialAt(trades) = {2, 3}
    /\ SameTrade(trades[2], trades[3])
    /\ SameTrade(trades[1], trades[2])
    /\ stage_mid # SubSeq(trades, 1, 2)
    /\ stage_out = stage_mid

Ended == pc = "done"

\* the code a response carries: None for text that is not XML
CodeOf(response) == IF response.kind = "xml" THEN response.ErrorCode ELSE None

\* C19: one call sends at most 5 requests; a request after the first is sent
\* only when the latest response carried ErrorCode 1019 and 5 more seconds
\* were slept; a fifth 1019 raises an error with code 1019 and the upstream
\* message; a response without an error code ends the call, at any attempt,
\* by returning; every call ends.
C19_Counts ==
    /\ sent <= 5
    /\ attempt <= 4
    /\ slept = 5 * attempt
    /\ (pc \in {"inspect", "sleep"}) => sent = attempt + 1
    /\ (pc = "sleep") => CodeOf(xml_data) = "1019"
    /\ (pc = "request") => (sent = attempt /\ outcome = "running")
    /\ (pc = "request" /\ sent > 0) => CodeOf(xml_data) = "1019"
    /\ outcome = "running" <=> ~Ended

C19_Steps ==
    /\ sent' # sent =>
          /\ sent' = sent + 1
          /\ sent > 0 => (CodeOf(xml_data) = "1019" /\ slept = 5 * sent)
    /\ (pc = "inspect" /\ CodeOf(xml_data) = "1019" /\ sent = 5 /\ pc' # pc) =>
          /\ Ended' /\ outcome' = "raised" /\ sent' = 5 /\ slept' = slept
          /\ error'.code = "1019"
          /\ xml_data.ErrorMessage # None => error'.message = xml_data.ErrorMessage
    /\ (pc = "inspect" /\ CodeOf(xml_data) = "1019" /\ sent < 5 /\ pc' # pc) =>
          pc' = "sleep" /\ outcome' = "running"
    /\ (pc = "inspect" /\ CodeOf(xml_data) \in {None, ""} /\ pc' # pc) =>
          /\ Ended' /\ outcome' = "returned" /\ error' = NoError
          /\ sent' = sent /\ slept' = slept
    /\ Ended => UNCHANGED vars

Rejected(response) == CodeOf(response) \notin {None, "", "1019"}

C20_Step ==
    (pc = "inspect" /\ Rejected(xml_data) /\ pc' # pc) =>
        /\ Ended' /\ outcome' = "raised"
        /\ error'.prefix = "FlexQuery Error"
        /\ error'.code = xml_data.ErrorCode
        /\ error'.message = IF xml_data.ErrorMessage = None THEN "Unknown error"
                             ELSE xml_data.ErrorMessage
        /\ sent' = sent /\ slept' = slept /\ attempt' = attempt

C20_Ended ==
    (Ended /\ Rejected(xml_data)) =>
        /\ outcome = "raised" /\ error.code = xml_data.ErrorCode
        /\ sent = attempt + 1 /\ slept = 5 * attempt

C20_RejectedAtOnce == [](C20_Ended) /\ [][C20_Step /\ (Ended => UNCHANGED vars)]_vars

C20_Witness ==
    /\ Ended /\ outcome = "raised" /\ attempt = 2 /\ sent = 3 /\ slept = 10
    /\ error.code = "1012" /\ error.message = "Token has expired"

ConfigKeys == {"TOKEN", "QUERY_ID", "FLEX_VERSION", "HEADERS"}

Called(name) == \E i \in DOMAIN calls : calls[i] = name

\* the problems of an environment, each as the message that names it
ProblemsOf(e) ==
    {m \in {"Please set the TOKEN environment variable.",
            "Please set the QUERY_ID environment variable.",
            "Please set the FLEX_VERSION environment variable.",
            "Please set the HEADERS environment variable.",
            "HEADERS must be a valid JSON string."} :
        \/ m = "Please set the TOKEN environment variable." /\ e.TOKEN \in {None, ""}
        \/ m = "Please set the QUERY_ID environment variable." /\ e.QUERY_ID \in {None, ""}
        \/ m = "Please set the FLEX_VERSION environment variable."
              /\ e.FLEX_VERSION \in {None, ""}
        \/ m = "Please set the HEADERS environment variable." /\ e.HEADERS \in {None, ""}
        \/ m = "HEADERS must be a valid JSON string." /\ e.HEADERS \notin {None, "", "{}"}}

\* C21: with TOKEN, QUERY_ID, FLEX_VERSION or HEADERS absent or empty, or
\* HEADERS no JSON, load_config raises a ValueError that names one of the
\* problems, and the run fails with neither send_request nor get_statement
\* called and no request sent.
C21_MissingConfiguration ==
    ProblemsOf(env) # {} =>
        /\ run \in {"start", "load_config", "failed"}
        /\ ~Called("send_request") /\ ~Called("get_statement")
        /\ sent = 0 /\ reference_code = None
        /\ Called("load_config") =>
              /\ run = "failed"
              /\ calls = <<"load_config">>
              /\ error.type = "ValueError"
              /\ error.message \in ProblemsOf(env)
        /\ cache.by = None

C21_Witness ==
    /\ run = "failed"
    /\ env.TOKEN = "abc123" /\ env.QUERY_ID = "abc123" /\ env.FLEX_VERSION = "abc123"
    /\ env.HEADERS = "User-Agent=x"
    /\ error.type = "ValueError"
    /\ error.message = "HEADERS must be a valid JSON string."
    /\ calls = <<"load_config">>

StageOrder ==
    <<"load_config", "send_request", "get_statement", "process_statement_data", "transform">>

\* a value that is a parsed date or date-time (NaT for a missing one), no
\* longer the digits of the wire
Parsed(value) == "wire" \notin DOMAIN value /\ "missing" \notin DOMAIN value

AllParsed(rows) ==
    \A i \in DOMAIN rows :
        \A c \in {"tradeDate", "settleDateTarget", "expiry", "dateTime"} :
            c \in DOMAIN rows[i] /\ Parsed(rows[i][c])

\* C22: the functions of a run are called in the order load_config,
\* send_request, get_statement, process_statement_data, transform; the table
\* handed to transform has tradeDate, settleDateTarget, expiry and dateTime
\* parsed; the dashboard is handed only what transform returned.
C22_StageOrder ==
    /\ \/ \E n \in 0..5 : calls = SubSeq(StageOrder, 1, n)
       \/ calls = Append(StageOrder, "run_streamlit_dashboard")
       \/ calls = <<"run_streamlit_dashboard">> /\ cache.by = "transform"
    /\ Called("transform") => (trades # <<>> /\ AllParsed(trades))
    /\ run = "transform" => AllParsed(table.rows)
    /\ run \in {"dashboard", "shown"} => (table.by = "transform" /\ AllParsed(table.rows))
    /\ Called("run_streamlit_dashboard") => (df = table.rows /\ table.by = "transform")
    /\ cache.by \in {None, "transform"}

C22_Witness ==
    /\ run = "shown"
    /\ calls = Append(StageOrder, "run_streamlit_dashboard")
    /\ Len(df) = 2
    /\ df[1].tradeDate = [year |-> 2024, month |-> 1, day |-> 5]
    /\ df[1].dateTime.hour = 9 /\ df[1].dateTime.minute = 31
    /\ "NaT" \in DOMAIN df[2].expiry
    /\ df[2].tradeDate = [year |-> 2024, month |-> 2, day |-> 29]

\* C30 as stated: get_statement is never called, and no GetStatement request
\* is sent, with an absent reference code: a SendRequest response without a
\* ReferenceCode makes the run fail in send_request.
C30_ReferenceCodeIssued ==
    /\ Called("get_statement") => reference_code # None
    /\ sent > 0 => reference_code # None
    /\ (Called("send_request") /\ reference_code = None /\ run # "send_request")
          => (run = "failed" /\ calls = <<"load_config", "send_request">>)

\* C26 as stated: a two-leg group with different expiries, one SELL and one
\* BUY leg of one option type and the sell strike below the buy strike gets a
\* diagonal-spread label, for calls as for puts, and not Other.
C26_DiagonalBelow_AsStated ==
    (/\ Returned /\ OneSellOneBuy /\ ~OneExpiry
     /\ (BothLegs("C") \/ BothLegs("P"))
     /\ SellLeg.strike < BuyLeg.strike) =>
        /\ strategy \in {"Diagonal Call Spread", "Diagonal Put Spread"}
        /\ strategy # "Other"

\* C26: such a group is a Diagonal Put Spread when both legs are puts, and
\* Other when both legs are calls: for calls only a sell strike above the buy
\* strike gives a diagonal label, for puts only one below.
C26_DiagonalBelow ==
    (Returned /\ OneSellOneBuy /\ ~OneExpiry /\ SellLeg.strike < BuyLeg.strike) =>
        /\ BothLegs("P") => strategy = "Diagonal Put Spread"
        /\ BothLegs("C") => strategy = "Other"

C26_Witness ==
    /\ Returned /\ OneSellOneBuy /\ ~OneExpiry /\ BothLegs("C")
    /\ SellLeg.strike = 100 /\ BuyLeg.strike = 105
    /\ strategy = "Other"

\* C29: a Calendar or Diagonal label is returned only for a two-leg group
\* whose legs have different expiries; a two-leg group with one common expiry
\* never gets one.
CalendarDiagonalLabels ==
    {"Calendar Call Spread", "Calendar Put Spread",
     "Diagonal Call Spread", "Diagonal Put Spread"}

C29_CalendarNeedsTwoExpiries ==
    Returned =>
        /\ strategy \in CalendarDiagonalLabels => (Len(group) = 2 /\ ~OneExpiry)
        /\ (Len(group) = 2 /\ OneExpiry) => strategy \notin CalendarDiagonalLabels

C29_Witness ==
    /\ Returned /\ OneSellOneBuy /\ OneExpiry /\ BothLegs("P")
    /\ SellLeg.strike < BuyLeg.strike
    /\ strategy = "Bear Put Spread"

\* C28: the returned table has exactly one row per row of the input table,
\* in the input order, each with the input row's columns and values and the
\* one added column optionStrategy.
InputColumns(row) == DOMAIN row \ {"optionStrategy"}

C28_TablePreserved ==
    Categorized =>
        /\ Len(df_merged) = Len(df)
        /\ \A i \in DOMAIN df_merged :
              i \in DOMAIN df =>
                  /\ InputColumns(df_merged[i]) = DOMAIN df[i]
                  /\ \A c \in DOMAIN df[i] : df_merged[i][c] = df[i][c]

\* ---- the dashboards and the helpers of transformations.py
\* one of the two dashboards has filtered trades and computed its indicators
DashboardNames == {"run_streamlit_dashboard", "update_combined_chart_and_indicators"}
Ran == pc = "done" /\ metrics.by \in DashboardNames
CalledHelper(name) == pc = "done" /\ metrics.by = name

\* the opendateTime groups of the filtered table and their summed PnLRealized
OpenGroups == {stage_out[i].opendateTime : i \in DOMAIN stage_out}
PnLOf(key) ==
    SumField(SelectSeq(stage_out, LAMBDA row : row.opendateTime = key), "PnLRealized")
Winning == {key \in OpenGroups : PnLOf(key) > 0}

\* C23: the win rate of a filtered table that is not empty is 100 times the
\* number of opendateTime groups with a sum of PnLRealized above 0, divided
\* by the number of opendateTime groups; a group with sum 0 is no win, ten
\* groups with six wins give 60, and the rate is between 0 and 100.
C23_WinRate ==
    Ran =>
        /\ metrics.win_rate.den > 0
        /\ 0 <= metrics.win_rate.num
        /\ metrics.win_rate.num <= 100 * metrics.win_rate.den
        /\ stage_out # <<>> =>
              /\ metrics.total_trades = [num |-> Cardinality(OpenGroups), den |-> 1]
              /\ metrics.wins = [num |-> Cardinality(Winning), den |-> 1]
              /\ metrics.win_rate.num * Cardinality(OpenGroups)
                    = 100 * Cardinality(Winning) * metrics.win_rate.den
              /\ \A key \in OpenGroups : PnLOf(key) = 0 => key \notin Winning
              /\ (Cardinality(OpenGroups) = 10 /\ Cardinality(Winning) = 6)
                    => metrics.win_rate = [num |-> 60, den |-> 1]

C23_Witness ==
    /\ Ran /\ trades = TenTrades /\ Len(stage_out) = 11
    /\ Cardinality(OpenGroups) = 10 /\ Cardinality(Winning) = 6
    /\ PnLOf(7) = 0
    /\ metrics.win_rate = [num |-> 60, den |-> 1]

\* the OPT and FOP rows of the filtered table, and its rows with a cost below 0
PremiumRows == SelectSeq(stage_out, LAMBDA row : row.assetCategory \in {"OPT", "FOP"})
SoldRows == SelectSeq(stage_out, LAMBDA row : row.cost < 0)

\* the indicators are those of rows: the absolute summed cost and the summed
\* PnLRealized in cents, and their ratio times 100 to two decimals, or 0 when
\* the absolute cost is 0
PcrIsOver(rows) ==
    LET cost == RoundHalfEven(Abs(SumField(rows, "cost")), 10)
        realized == RoundHalfEven(SumField(rows, "PnLRealized"), 10)
    IN /\ metrics.pcr.den > 0
       /\ metrics.sum_cost = Frac(cost, 100)
       /\ metrics.sum_realized = Frac(realized, 100)
       /\ cost = 0 => metrics.pcr = Zero
       /\ cost # 0 => metrics.pcr = Frac(RoundHalfEven(10000 * realized, cost), 100)

Aggregates ==
    {"win_rate", "wins", "total_trades", "pcr", "sum_cost", "sum_realized",
     "avg_winner", "avg_loser", "max_winner", "max_loser", "avg_per_trade"}

\* C25 as stated: when the filters select no row, the filtered table is
\* empty with exactly the columns of the full table and every aggregate is 0.
C25_EmptyResult_AsStated ==
    (Ran /\ stage_out = <<>>) =>
        /\ metrics.columns = Columns(trades)
        /\ \A a \in Aggregates : metrics[a] = Zero

\* C25: when the filters select no row, the computation ends, every
\* aggregate is 0 and the filtered table is empty with every column of the
\* full table; it has one column more (week_str, month_str or quarter_str)
\* exactly when a time bucket is selected.
C25_EmptyResult ==
    (Ran /\ stage_out = <<>>) =>
        /\ Columns(trades) \subseteq metrics.columns
        /\ metrics.columns \ Columns(trades) =
              (IF selection.time_filter # "Total" /\ selection.selected_periods # {}
               THEN {PeriodColumn(selection.time_filter)} ELSE {})
        /\ \A a \in Aggregates : metrics[a] = Zero

C25_Witness ==
    /\ Ran /\ stage_out = <<>> /\ Len(trades) = 2
    /\ selection.time_filter = "All months"
    /\ selection.selected_periods = {[year |-> 2024, month |-> 4]}
    /\ selection.selected_assets = {"STK"}
    /\ metrics.columns = Columns(trades) \cup {"month_str"}
    /\ metrics.pcr = Zero /\ metrics.win_rate = Zero

\* C27: get_filtered_data returns the table it was handed when value is None
\* or the period is not week, month, quarter or year; for one of these
\* periods and a value it returns the rows whose period column equals the
\* value, in their order.
C27_FilteredData ==
    CalledHelper("get_filtered_data") =>
        LET recognised == selection.period \in {"week", "month", "quarter", "year"}
            Equal(row) == CellEquals(selection.period, row[selection.period], selection.value)
        IN /\ (selection.value = NoValue \/ ~recognised) => stage_out = stage_mid
           /\ (recognised /\ selection.value # NoValue) =>
                 stage_out = SelectSeq(stage_mid, Equal)

====
